---- MODULE Spec2Model ----
(***************************************************************************)
(* SolQuery: the /query endpoint (solquery/main.py), the LLM router        *)
(* (services/llm_service.py) and the tool services it dispatches to        *)
(* (services/data_sources.py, portfolio_service.py, sentiment_service.py). *)
(*                                                                         *)
(* Python values are modelled as records tagged with their Python type:    *)
(*   [py |-> "str",   v |-> s]            a str                            *)
(*   [py |-> "dict",  d |-> record]       a dict with string keys          *)
(*   [py |-> "model", cls |-> c, d |-> r] a Pydantic model of class c      *)
(*   [py |-> "None"]                      None                             *)
(* An ordered dict (aggregated_results) is a sequence of [k, v] pairs in   *)
(* insertion order.                                                        *)
(***************************************************************************)
EXTENDS Integers, Sequences, FiniteSets, TLC

VARIABLES
    pc,                           \* position of the request handler
    settings,                     \* core/config.py settings (API keys)
    gemini_configured,            \* llm_service._gemini_configured
    gemini_model,                 \* llm_service._gemini_model ("None" or "model")
    http_client,                  \* data_sources.http_client ("None" or "open")
    llm_response,                 \* what the LLM collaborator did for this request
    routing_decision,             \* result of route_query_with_llm
    actions,                      \* routing_decision.get("actions")
    idx,                          \* number of loop iterations completed
    aggregated_results,           \* ordered dict of the handler
    data_sources_used_list,
    any_execution_error_occurred,
    exec_log,                     \* history: one entry per executed action
    response,                     \* the QueryResponse returned, once returned
    sentiment_call,               \* llm_service: last analyze_sentiment_with_llm call
    client_pool,                  \* data_sources: the httpx clients created so far
    connector,                    \* agent_client/solquery_connector_agent.py
    chat_app,                     \* agent_client/fukuoka_chat_app.py
    ui_agent                      \* agent_client/fukuoka_chat_ui_agent.py

\* the FastAPI application
endpoint_vars == <<pc, settings, gemini_configured, gemini_model, http_client,
                   llm_response, routing_decision, actions, idx, aggregated_results,
                   data_sources_used_list, any_execution_error_occurred, exec_log,
                   response>>

\* the components studied on their own: they take no step while the
\* endpoint runs, and the endpoint takes none while they do
component_vars == <<sentiment_call, client_pool, connector, chat_app, ui_agent>>

vars == <<endpoint_vars, component_vars>>

\* a component that is not running
NotStarted == [pc |-> "off"]

ComponentsIdle ==
    /\ sentiment_call = NotStarted
    /\ client_pool = NotStarted
    /\ connector = NotStarted
    /\ chat_app = NotStarted
    /\ ui_agent = NotStarted

-----------------------------------------------------------------------------
(* Bounds *)

MaxActions == 2      \* longest list of function calls the LLM returns

-----------------------------------------------------------------------------
(* Python helpers *)

PyNone == [py |-> "None"]
PyStr(s) == [py |-> "str", v |-> s]
PyDict(r) == [py |-> "dict", d |-> r]
PyModel(c, r) == [py |-> "model", cls |-> c, d |-> r]

\* `sub in s` for Python strings
Contains(s, sub) ==
    \E i \in 1..(Len(s) - Len(sub) + 1) : SubSeq(s, i, i + Len(sub) - 1) = sub

UpperChars == "ABCDEFGHIJKLMNOPQRSTUVWXYZ"
LowerChars == "abcdefghijklmnopqrstuvwxyz"

Letter(alphabet, i) == SubSeq(alphabet, i, i)

LowerMap == [c \in {Letter(UpperChars, i) : i \in 1..Len(UpperChars)} |->
               Letter(LowerChars, CHOOSE i \in 1..Len(UpperChars) : Letter(UpperChars, i) = c)]
UpperMap == [c \in {Letter(LowerChars, i) : i \in 1..Len(LowerChars)} |->
               Letter(UpperChars, CHOOSE i \in 1..Len(LowerChars) : Letter(LowerChars, i) = c)]

MapChars(s, map) ==
    [i \in 1..Len(s) |-> IF Letter(s, i) \in DOMAIN map THEN map[Letter(s, i)]
                         ELSE Letter(s, i)]

RECURSIVE Concat(_)
Concat(chars) ==
    IF Len(chars) = 0 THEN "" ELSE Head(chars) \o Concat(Tail(chars))

\* str.lower() and str.upper()
Lower(s) == Concat(MapChars(s, LowerMap))
Upper(s) == Concat(MapChars(s, UpperMap))

\* dict.get(k) is truthy: the key is present with a non-empty string
Truthy(d, k) == k \in DOMAIN d /\ d[k] # ""

\* ordered dict: keys, lookup, and d[k] = v (an existing key keeps its position)
DictKeys(od) == {od[i].k : i \in 1..Len(od)}
DictGet(od, key) == od[CHOOSE i \in 1..Len(od) : od[i].k = key].v
DictPut(od, key, val) ==
    IF key \in DictKeys(od)
    THEN [i \in 1..Len(od) |-> IF od[i].k = key THEN [k |-> key, v |-> val] ELSE od[i]]
    ELSE Append(od, [k |-> key, v |-> val])

-----------------------------------------------------------------------------
(* Configuration *)

GEMINI_FALLBACK == "YOUR_GEMINI_API_KEY_FALLBACK"
HELIUS_FALLBACK == "YOUR_HELIUS_API_KEY_FALLBACK"
DEFAULT_TEST_WALLET == "3tA8PjUvrep7UT9LNWnHZQmQ5bg646YuZnt7xLiQAXEe"

GeminiKeys == {"", GEMINI_FALLBACK, "gemini-key"}
HeliusKeys == {HELIUS_FALLBACK, "helius-key"}

\* configure_gemini_if_needed: returns the new (_gemini_configured, _gemini_model);
\* `raises` is whether genai.configure / GenerativeModel raises
\* variant of ConfigureGemini: the flag is set before the model is built, so
\* a raising GenerativeModel leaves it set
ConfigureGemini_FlagFirst(configured, model, key, raises) ==
    IF ~configured /\ key # "" /\ key # GEMINI_FALLBACK
    THEN [configured |-> TRUE, model |-> IF raises THEN model ELSE "model"]
    ELSE [configured |-> configured, model |-> model]

ConfigureGemini(configured, model, key, raises) ==
    IF ~configured /\ key # "" /\ key # GEMINI_FALLBACK /\ ~raises
    THEN [configured |-> TRUE, model |-> "model"]
    ELSE [configured |-> configured, model |-> model]

-----------------------------------------------------------------------------
(* Tool catalog and the LLM collaborator *)

\* names of the function declarations grouped in SOLQUERY_TOOL_CONFIG
SOLQUERY_TOOL_CONFIG ==
    {"get_sol_balance", "get_spl_token_balances", "get_nft_holdings",
     "find_fukuoka_local_services", "get_fukuoka_events", "get_crypto_payment_info",
     "get_text_for_sentiment", "analyze_text_sentiment"}

NoArgs == [p \in {} |-> ""]

FunctionCall(name, args) == [kind |-> "function_call", name |-> name, args |-> args]
TextPart(text) == [kind |-> "text", text |-> text]

\* function calls the LLM may return: the declared tools with and without
\* their parameters, and names the catalog does not declare
FunctionCalls ==
    {FunctionCall("get_sol_balance", NoArgs),
     FunctionCall("get_spl_token_balances", [wallet_address |-> "W1"]),
     FunctionCall("get_nft_holdings", [wallet_address |-> "W1"]),
     FunctionCall("find_fukuoka_local_services", NoArgs),
     FunctionCall("find_fukuoka_local_services", [category |-> "Cafe"]),
     FunctionCall("find_fukuoka_local_services", [category |-> "co-working space"]),
     FunctionCall("get_fukuoka_events", [timeframe |-> "today"]),
     FunctionCall("get_crypto_payment_info", [topic |-> "What is Solana Pay"]),
     FunctionCall("get_text_for_sentiment", NoArgs),
     FunctionCall("get_text_for_sentiment", [nft_collection_name |-> "Mad Lads"]),
     FunctionCall("analyze_text_sentiment", [topic |-> "SOL"]),
     FunctionCall("analyze_text_sentiment",
                  [text_to_analyze |-> "SOL is doomed", topic |-> "SOL"]),
     FunctionCall("get_wallet_portfolio_summary", [wallet_address |-> "W1"]),
     FunctionCall("get_nft_collection_sentiment", [collection_name |-> "Mad Lads"]),
     FunctionCall("request_clarification", [question |-> "Which wallet?"])}

TextParts ==
    {TextPart("Which wallet?"), TextPart("CLARIFICATION_NEEDED: wallet"),
     TextPart("SOL is the native coin.")}

LLMException == "503 UNAVAILABLE"

\* outcomes of _gemini_model.generate_content_async(final_prompt, tools=...):
\* an exception, or a response whose first candidate holds up to MaxActions
\* parts, each a function call or a text
LLMResponses ==
    {[kind |-> "raises", exc |-> LLMException]}
    \cup {[kind |-> "response", parts |-> ps] :
            ps \in UNION {[1..n -> FunctionCalls \cup TextParts] : n \in 0..MaxActions}}

NotCalled == [kind |-> "not_called"]

IsFunctionCall(part) == part.kind = "function_call"
IsText(part) == part.kind = "text"

\* response.text: the text parts joined
RECURSIVE ResponseText(_)
ResponseText(parts) ==
    IF Len(parts) = 0 THEN ""
    ELSE (IF IsText(Head(parts)) THEN Head(parts).text ELSE "")
         \o ResponseText(Tail(parts))

\* the loop over response.candidates[0].content.parts
ActionsToTake(parts) ==
    LET fcs == SelectSeq(parts, IsFunctionCall)
    IN  [i \in 1..Len(fcs) |-> [tool_name |-> fcs[i].name, arguments |-> fcs[i].args]]

\* variant of RouteQueryWithLLM: the except clause hands the exception text
\* back as a direct answer
RouteQueryWithLLM_ExceptionAsAnswer(configured, model, resp) ==
    IF model = "None" \/ ~configured
    THEN [error |-> "Gemini API not configured. Cannot route query."]
    ELSE IF resp.kind = "raises"
    THEN [direct_answer |-> "Gemini API routing error: " \o resp.exc]
    ELSE IF Len(ActionsToTake(resp.parts)) > 0
    THEN [actions |-> ActionsToTake(resp.parts)]
    ELSE IF ResponseText(resp.parts) # ""
    THEN IF Contains(Lower(ResponseText(resp.parts)), "clarification_needed")
            \/ Contains(ResponseText(resp.parts), "?")
         THEN [clarification_needed |-> ResponseText(resp.parts)]
         ELSE [direct_answer |-> ResponseText(resp.parts)]
    ELSE [error |-> "LLM did not suggest an action or provide a text response."]

\* variant of RouteQueryWithLLM: the text that comes with function calls is
\* returned next to the actions
RouteQueryWithLLM_KeepsText(configured, model, resp) ==
    IF model = "None" \/ ~configured
    THEN [error |-> "Gemini API not configured. Cannot route query."]
    ELSE IF resp.kind = "raises"
    THEN [error |-> "Gemini API routing error: " \o resp.exc]
    ELSE IF Len(ActionsToTake(resp.parts)) > 0
    THEN IF ResponseText(resp.parts) # ""
         THEN [actions |-> ActionsToTake(resp.parts),
               direct_answer |-> ResponseText(resp.parts)]
         ELSE [actions |-> ActionsToTake(resp.parts)]
    ELSE IF ResponseText(resp.parts) # ""
    THEN IF Contains(Lower(ResponseText(resp.parts)), "clarification_needed")
            \/ Contains(ResponseText(resp.parts), "?")
         THEN [clarification_needed |-> ResponseText(resp.parts)]
         ELSE [direct_answer |-> ResponseText(resp.parts)]
    ELSE [error |-> "LLM did not suggest an action or provide a text response."]

\* variant of RouteQueryWithLLM: every text is a direct answer
RouteQueryWithLLM_NoClarification(configured, model, resp) ==
    IF model = "None" \/ ~configured
    THEN [error |-> "Gemini API not configured. Cannot route query."]
    ELSE IF resp.kind = "raises"
    THEN [error |-> "Gemini API routing error: " \o resp.exc]
    ELSE IF Len(ActionsToTake(resp.parts)) > 0
    THEN [actions |-> ActionsToTake(resp.parts)]
    ELSE IF ResponseText(resp.parts) # ""
    THEN [direct_answer |-> ResponseText(resp.parts)]
    ELSE [error |-> "LLM did not suggest an action or provide a text response."]

\* route_query_with_llm after configure_gemini_if_needed; `resp` is the LLM's
\* outcome, read only when the LLM is configured
RouteQueryWithLLM(configured, model, resp) ==
    IF model = "None" \/ ~configured
    THEN [error |-> "Gemini API not configured. Cannot route query."]
    ELSE IF resp.kind = "raises"
    THEN [error |-> "Gemini API routing error: " \o resp.exc]
    ELSE IF Len(ActionsToTake(resp.parts)) > 0
    THEN [actions |-> ActionsToTake(resp.parts)]
    ELSE IF ResponseText(resp.parts) # ""
    THEN IF Contains(Lower(ResponseText(resp.parts)), "clarification_needed")
            \/ Contains(ResponseText(resp.parts), "?")
         THEN [clarification_needed |-> ResponseText(resp.parts)]
         ELSE [direct_answer |-> ResponseText(resp.parts)]
    ELSE [error |-> "LLM did not suggest an action or provide a text response."]

-----------------------------------------------------------------------------
(* data_sources.py: the Helius services and the mock services *)

\* what http_client.post / raise_for_status / response.json() can do
HeliusOutcomes ==
    {"ok", "rpc_error", "bad_structure", "http_status_error", "request_error", "exception"}

\* an error-marker dict, with and without a "details" entry
ErrDict(msg) == PyDict([error |-> msg])
ErrDictDetails(msg, det) == PyDict([error |-> msg, details |-> det])

\* `"FALLBACK" in settings.HELIUS_API_KEY or not settings.HELIUS_API_KEY`,
\* tabulated over the keys of the model
KeyMissingTable == [k \in HeliusKeys |-> Contains(k, "FALLBACK") \/ k = ""]
KeyMissing(key) == KeyMissingTable[key]

RpcMessage == "Invalid param"
HttpBody == "Too Many Requests"
RequestErrorText == "ReadTimeout"
ExceptionText == "Expecting value: line 1 column 1 (char 0)"

GetSolBalanceService(wallet_address, key, h) ==
    IF KeyMissing(key) THEN ErrDict("Helius API Key not configured")
    ELSE CASE h = "ok" ->
                PyDict([wallet |-> wallet_address, balance_lamports |-> "LAMPORTS",
                        source |-> "Helius RPC (getBalance)"])
           [] h = "rpc_error" ->
                PyDict([error |-> "RPC Error: " \o RpcMessage, code |-> "-32602"])
           [] h = "bad_structure" ->
                ErrDictDetails("Unexpected response structure from Helius getBalance", "DATA")
           [] h = "http_status_error" -> ErrDictDetails("HTTP Error: 429", HttpBody)
           [] h = "request_error" ->
                ErrDictDetails("Network request to Helius failed for getBalance",
                               RequestErrorText)
           [] h = "exception" ->
                ErrDictDetails("An unexpected error occurred while fetching SOL balance",
                               ExceptionText)

\* the last of the three definitions of get_spl_token_balances_service is the
\* one Python keeps
GetSplTokenBalancesService(wallet_address, key, h) ==
    IF KeyMissing(key) THEN ErrDict("Helius API Key not configured in .env")
    ELSE CASE h = "ok" ->
                PyDict([wallet_address |-> wallet_address, tokens |-> "TOKENS",
                        source |-> "Helius DAS API (Fungible)"])
           [] h = "rpc_error" -> ErrDict("RPC Error for SPL tokens: " \o RpcMessage)
           [] h = "bad_structure" ->
                ErrDictDetails("Unexpected response structure for SPLs", "DATA")
           [] h = "http_status_error" ->
                ErrDict("An unexpected error occurred while fetching SPL token balances: "
                        \o "429 Too Many Requests")
           [] h = "request_error" ->
                ErrDict("An unexpected error occurred while fetching SPL token balances: "
                        \o RequestErrorText)
           [] h = "exception" ->
                ErrDict("An unexpected error occurred while fetching SPL token balances: "
                        \o ExceptionText)

GetNftHoldingsService(wallet_address, limit, key, h) ==
    IF KeyMissing(key) THEN ErrDict("Helius API Key not configured")
    ELSE CASE h = "ok" ->
                PyDict([wallet_address |-> wallet_address,
                        nfts |-> "NFTS limit=" \o limit, count |-> "COUNT"])
           [] h = "item_without_id" ->
                PyDict([wallet_address |-> wallet_address,
                        nfts |-> "NFTS with id=None", count |-> "COUNT"])
           [] h = "rpc_error" -> ErrDict(RpcMessage)
           [] h = "bad_structure" ->
                ErrDictDetails("Unexpected NFT response structure", "DATA")
           [] h = "http_status_error" ->
                ErrDict("get_nfts_for_wallet failed: " \o "429 Too Many Requests")
           [] h = "request_error" ->
                ErrDict("get_nfts_for_wallet failed: " \o RequestErrorText)
           [] h = "exception" -> ErrDict("get_nfts_for_wallet failed: " \o ExceptionText)

\* Python's TypeError for a call f(**arguments) that lacks the required
\* keyword or carries a keyword f does not take
KwargsError(fn, arguments, required, optional) ==
    IF required \notin DOMAIN arguments
    THEN fn \o "() missing 1 required positional argument: '" \o required \o "'"
    ELSE IF ~(DOMAIN arguments \subseteq ({required} \cup optional))
    THEN fn \o "() got an unexpected keyword argument"
    ELSE ""

FindFukuokaLocalServicesService(arguments) ==
    LET c == Lower(arguments.category)
        coworking == Contains(c, "co-working") \/ Contains(c, "coworking")
        food == Contains(c, "restaurant") \/ Contains(c, "cafe") \/ Contains(c, "food")
        area == IF "area_in_fukuoka" \in DOMAIN arguments
                THEN arguments.area_in_fukuoka ELSE ""
        pay == IF "accepts_solana_payments" \in DOMAIN arguments
               THEN arguments.accepts_solana_payments ELSE ""
        found == (IF coworking THEN "coworking;" ELSE "") \o (IF food THEN "restaurants;" ELSE "")
    IN  PyDict([found_services |->
                   IF found = "" THEN "No matching services found with current mock data."
                   ELSE found \o "area=" \o area \o ";pay=" \o pay])

GetFukuokaEventsService(arguments) ==
    LET crypto == IF "accepts_crypto" \in DOMAIN arguments
                  THEN arguments.accepts_crypto ELSE ""
    IN  PyDict([found_events |-> "events;crypto=" \o crypto])

\* the key phrases of MOCK_CRYPTO_PAYMENT_INFO, in the dict's order
PaymentKeyPhrases ==
    <<"setting up phantom wallet", "benefits of usdc for shops in fukuoka",
      "how to buy sol for a tourist", "solana pay">>

GetCryptoPaymentInfoService(arguments) ==
    LET topic == arguments.topic
        hits == {i \in 1..Len(PaymentKeyPhrases) :
                    Contains(Lower(topic), PaymentKeyPhrases[i])}
    IN  IF hits # {}
        THEN LET i == CHOOSE j \in hits : \A m \in hits : j <= m
             IN  PyDict([topic |-> PaymentKeyPhrases[i],
                         information |-> "INFO: " \o PaymentKeyPhrases[i]])
        ELSE PyDict([topic |-> topic,
                     information |-> "Sorry, I don't have specific information"])

\* get_text_for_sentiment_service; "" stands for an argument that is None
GetTextForSentimentService(token_identifier, nft_collection_name) ==
    IF token_identifier = "" /\ nft_collection_name = ""
    THEN PyDict([error |-> "No target specified for sentiment text", text |-> ""])
    ELSE IF nft_collection_name # ""
    THEN IF nft_collection_name = "Mad Lads"
         THEN PyDict([text |-> "Mad Lads are a top Solana collection, very hyped!",
                      topic |-> nft_collection_name])
         ELSE PyDict([text |-> "General positive buzz around " \o nft_collection_name
                               \o " NFTs.",
                      topic |-> nft_collection_name])
    ELSE IF Upper(token_identifier) = "SOL"
    THEN PyDict([text |-> "SOL is performing well, network upgrades are positive.",
                 topic |-> token_identifier])
    ELSE IF Upper(token_identifier) = "$JUP"
    THEN PyDict([text |-> "JUP token has strong community backing and utility.",
                 topic |-> token_identifier])
    ELSE PyDict([text |-> "Mixed news regarding " \o token_identifier
                          \o ", some bullish some cautious.",
                 topic |-> token_identifier])

-----------------------------------------------------------------------------
(* llm_service.analyze_sentiment_with_llm, sentiment_service.py,           *)
(* portfolio_service.py                                                    *)

\* a service's completion: a returned value or a raised exception, with the
\* backing services it called, whether one of them reported a failure, and
\* the text handed to the sentiment LLM ("" when it was not called)
Return(value, services, backend_error, llm_text) ==
    [kind |-> "return", value |-> value, cls |-> "", exc |-> "", services |-> services,
     backend_error |-> backend_error, llm_text |-> llm_text]
\* variant of Raise: the fault is handed back as an error dict
Raise_AsErrorDict(cls, exc, services, backend_error, llm_text) ==
    [kind |-> "return", value |-> ErrDict(exc), cls |-> "", exc |-> "",
     services |-> services, backend_error |-> backend_error, llm_text |-> llm_text]

Raise(cls, exc, services, backend_error, llm_text) ==
    [kind |-> "raise", value |-> PyNone, cls |-> cls, exc |-> exc, services |-> services,
     backend_error |-> backend_error, llm_text |-> llm_text]

\* what generate_content_async(prompt) and json.loads can do for sentiment
SentimentOutcomes == {"json_object", "json_array", "non_json", "exception"}

\* analyze_sentiment_with_llm; a JSON array parses and is returned as a list
AnalyzeSentimentWithLLM(text_to_analyze, topic, configured, model, llm) ==
    IF model = "None" \/ ~configured
    THEN ErrDict("Gemini API not configured for sentiment analysis.")
    ELSE CASE llm = "json_object" ->
                PyDict([sentiment_classification |-> "Positive",
                        justification |-> "about " \o topic])
           [] llm = "json_array" -> [py |-> "list"]
           [] llm = "non_json" ->
                PyDict([error |-> "LLM returned non-JSON sentiment",
                        raw_response |-> "It looks positive."])
           [] llm = "exception" ->
                PyDict([error |-> "Gemini API sentiment analysis error: " \o LLMException,
                        raw_response |-> "Unknown"])

SentimentAnalysisResult(target_name, target_type, sentiment_data, preview) ==
    PyModel("SentimentAnalysisResult",
            [target_name |-> target_name, target_type |-> target_type,
             sentiment_data |-> sentiment_data, source_text_preview |-> preview])

\* SentimentService.get_sentiment_for_target
GetSentimentForTarget(target_identifier, target_type, configured, model, llm) ==
    LET text_data_result ==
            IF target_type = "nft_collection"
            THEN GetTextForSentimentService("", target_identifier)
            ELSE GetTextForSentimentService(target_identifier, "")
        fetch == {"get_text_for_sentiment_service"}
        text_to_analyze == text_data_result.d.text
        topic == IF "topic" \in DOMAIN text_data_result.d
                 THEN text_data_result.d.topic ELSE target_identifier
        sentiment_llm_result ==
            AnalyzeSentimentWithLLM(text_to_analyze, topic, configured, model, llm)
        both == fetch \cup {"analyze_sentiment_with_llm"}
    IN  IF target_type \notin {"nft_collection", "token"}
        THEN Return(SentimentAnalysisResult(target_identifier, target_type,
                        [error |-> "Invalid target_type for sentiment analysis."], ""),
                    {}, FALSE, "")
        ELSE IF Truthy(text_data_result.d, "error")
        THEN Return(SentimentAnalysisResult(target_identifier, target_type,
                        [error |-> "Could not fetch text for " \o target_identifier \o ": "
                                   \o text_data_result.d.error], ""),
                    fetch, TRUE, "")
        ELSE IF text_to_analyze = ""
        THEN Return(SentimentAnalysisResult(target_identifier, target_type,
                        [error |-> "No text found to analyze for " \o target_identifier
                                   \o "."], ""),
                    fetch, FALSE, "")
        ELSE IF sentiment_llm_result.py # "dict"
        THEN Raise("AttributeError", "'list' object has no attribute 'get'", both, FALSE, text_to_analyze)
        ELSE IF Truthy(sentiment_llm_result.d, "error")
        THEN Return(SentimentAnalysisResult(target_identifier, target_type,
                        [error |-> "Sentiment analysis failed: "
                                   \o (IF "raw_response" \in DOMAIN sentiment_llm_result.d
                                       THEN sentiment_llm_result.d.raw_response
                                       ELSE sentiment_llm_result.d.error)], ""),
                    both, TRUE, text_to_analyze)
        ELSE Return(SentimentAnalysisResult(target_identifier, target_type,
                        sentiment_llm_result.d,
                        SubSeq(text_to_analyze, 1,
                               IF Len(text_to_analyze) < 250 THEN Len(text_to_analyze)
                               ELSE 250) \o "..."),
                    both, FALSE, text_to_analyze)

\* PortfolioService.get_full_defi_portfolio: the two Helius results are
\* folded into a DeFiPortfolio; their errors go to a local list that is dropped
GetFullDefiPortfolio(wallet_address, key, h1, h2) ==
    LET sol_balance_data == GetSolBalanceService(wallet_address, key, h1).d
        spl_tokens_helius_data == GetSplTokenBalancesService(wallet_address, key, h2).d
        raw_amount ==
            IF ~Truthy(sol_balance_data, "error")
               /\ "balance_lamports" \in DOMAIN sol_balance_data
            THEN sol_balance_data.balance_lamports ELSE "0"
        token_holdings ==
            IF ~Truthy(spl_tokens_helius_data, "error")
               /\ "tokens" \in DOMAIN spl_tokens_helius_data
            THEN spl_tokens_helius_data.tokens ELSE "[]"
    IN  Return(PyModel("DeFiPortfolio",
                       [wallet_address |-> wallet_address,
                        sol_balance |-> [raw_amount |-> raw_amount],
                        token_holdings |-> token_holdings]),
               {"get_sol_balance_service", "get_spl_token_balances_service"},
               Truthy(sol_balance_data, "error") \/ Truthy(spl_tokens_helius_data, "error"),
               "")

NftOutcomes == HeliusOutcomes \cup {"item_without_id"}

\* PortfolioService.get_nft_portfolio_details; NFTHolding(id=None) fails
\* Pydantic validation
GetNftPortfolioDetails(wallet_address, limit, key, h3) ==
    LET nft_data_dict == GetNftHoldingsService(wallet_address, limit, key, h3).d
        svc == {"get_nft_holdings_service"}
    IN  IF Truthy(nft_data_dict, "error")
        THEN Return(PyModel("NFTPortfolio",
                            [wallet_address |-> wallet_address, nft_holdings |-> "[]",
                             total_nfts_count |-> "0"]),
                    svc, TRUE, "")
        ELSE IF h3 = "item_without_id"
        THEN Raise("ValidationError", "1 validation error for NFTHolding", svc, FALSE, "")
        ELSE Return(PyModel("NFTPortfolio",
                            [wallet_address |-> wallet_address,
                             nft_holdings |-> nft_data_dict.nfts,
                             total_nfts_count |-> nft_data_dict.count]),
                    svc, FALSE, "")

-----------------------------------------------------------------------------
(* main.py: handle_query_endpoint *)

Arg(arguments, name, default) ==
    IF name \in DOMAIN arguments THEN arguments[name] ELSE default

\* the per-call nondeterminism: one outcome for each backing call a tool makes
Envs(tool_name) ==
    [h1 : IF tool_name \in {"get_sol_balance", "get_spl_token_balances",
                            "get_wallet_portfolio_summary"}
          THEN HeliusOutcomes ELSE {"ok"},
     h2 : IF tool_name \in {"get_spl_token_balances", "get_wallet_portfolio_summary"}
          THEN HeliusOutcomes ELSE {"ok"},
     h3 : IF tool_name \in {"get_nft_holdings", "get_wallet_portfolio_summary"}
          THEN NftOutcomes ELSE {"ok"},
     llm : IF tool_name = "analyze_text_sentiment"
           THEN SentimentOutcomes ELSE {"json_object"}]

\* the body of the try block up to the result check: the if/elif chain on
\* tool_name; user_context is empty, so the wallet default is DEFAULT_TEST_WALLET
Dispatch(tool_name, arguments, key, configured, model, env) ==
    LET wallet_addr == Arg(arguments, "wallet_address", DEFAULT_TEST_WALLET)
    IN
    CASE tool_name = "get_sol_balance" ->
           LET r == GetSolBalanceService(wallet_addr, key, env.h1)
           IN  Return(r, {"get_sol_balance_service"}, Truthy(r.d, "error"), "")
      [] tool_name = "get_spl_token_balances" ->
           GetFullDefiPortfolio(wallet_addr, key, env.h1, env.h2)
      [] tool_name = "get_nft_holdings" ->
           GetNftPortfolioDetails(wallet_addr, Arg(arguments, "limit", "50"), key, env.h3)
      [] tool_name = "find_fukuoka_local_services" ->
           LET fn == "find_fukuoka_local_services_service"
               e == KwargsError(fn, arguments, "category",
                                {"accepts_solana_payments", "area_in_fukuoka"})
           IN  IF e # "" THEN Raise("TypeError", e, {}, FALSE, "")
               ELSE Return(FindFukuokaLocalServicesService(arguments), {fn}, FALSE, "")
      [] tool_name = "get_fukuoka_events" ->
           LET fn == "get_fukuoka_events_service"
               e == KwargsError(fn, arguments, "timeframe", {"event_type", "accepts_crypto"})
           IN  IF e # "" THEN Raise("TypeError", e, {}, FALSE, "")
               ELSE Return(GetFukuokaEventsService(arguments), {fn}, FALSE, "")
      [] tool_name = "get_crypto_payment_info" ->
           LET fn == "get_crypto_payment_info_service"
               e == KwargsError(fn, arguments, "topic", {})
           IN  IF e # "" THEN Raise("TypeError", e, {}, FALSE, "")
               ELSE Return(GetCryptoPaymentInfoService(arguments), {fn}, FALSE, "")
      [] tool_name = "get_text_for_sentiment" ->
           LET r == GetTextForSentimentService(Arg(arguments, "token_identifier", ""),
                                               Arg(arguments, "nft_collection_name", ""))
           IN  Return(r, {"get_text_for_sentiment_service"}, Truthy(r.d, "error"), "")
      [] tool_name = "analyze_text_sentiment" ->
           IF Arg(arguments, "text_to_analyze", "") = "" \/ Arg(arguments, "topic", "") = ""
           THEN Raise("ValueError",
                      "Missing 'text_to_analyze' or 'topic' for analyze_text_sentiment tool.",
                      {}, FALSE, "")
           ELSE GetSentimentForTarget(
                    arguments.topic,
                    IF Arg(arguments, "token_identifier", "") # ""
                    THEN "token" ELSE "nft_collection",
                    configured, model, env.llm)
      [] tool_name = "get_wallet_portfolio_summary" ->
           LET defi_part == GetFullDefiPortfolio(wallet_addr, key, env.h1, env.h2)
               nft_part == GetNftPortfolioDetails(wallet_addr, "50", key, env.h3)
               svc == defi_part.services \cup nft_part.services
               berr == defi_part.backend_error \/ nft_part.backend_error
           IN  IF nft_part.kind = "raise"
               THEN Raise(nft_part.cls, nft_part.exc, svc, berr, "")
               ELSE IF defi_part.value.py = "model" /\ nft_part.value.py = "model"
               THEN Return(PyDict([defi_summary |-> defi_part.value.d,
                                   nft_summary |-> nft_part.value.d,
                                   wallet_address |-> wallet_addr,
                                   overall_summary_text |->
                                       "Portfolio for " \o wallet_addr \o ": "
                                       \o defi_part.value.d.sol_balance.raw_amount
                                       \o " SOL. " \o defi_part.value.d.token_holdings
                                       \o " SPL token types. "
                                       \o nft_part.value.d.total_nfts_count \o " NFTs."]),
                           svc, berr, "")
               ELSE Return(ErrDictDetails("Failed to fetch complete portfolio.",
                                          "Unknown portfolio error."), svc, berr, "")
      [] OTHER ->
           Return(ErrDict("Tool '" \o tool_name \o "' not implemented in main.py handler."),
                  {}, FALSE, "")

\* variant of Catches: `except ValueError`
Catches_ValueErrorOnly(cls) == cls \in {"ValueError", "ValidationError"}

\* variant of Catches: the loop body without its try/except
Catches_Nothing(cls) == FALSE

\* `except Exception`: the classes the services raise all derive from Exception
ExceptionClasses == {"TypeError", "ValueError", "AttributeError", "ValidationError"}
Catches(cls) == cls \in ExceptionClasses

\* isinstance(action_response_data, dict) and action_response_data.get("error")
IsErrorDict(v) == v.py = "dict" /\ Truthy(v.d, "error")

\* how the handler classifies one call's completion
OutcomeKind(r) ==
    IF r.kind = "raise" THEN "raise"
    ELSE IF IsErrorDict(r.value) THEN "error"
    ELSE IF r.value.py # "None" THEN "value"
    ELSE "none"

NoDataMessage == "Tool executed but returned no data or an explicit None."

\* variant of Aggregate: every result, error or not, is stored under the tool
\* name, an error as the record {error, details}
Aggregate_KeyedByToolName(agg, tool_name, r) ==
    CASE OutcomeKind(r) = "raise" -> DictPut(agg, tool_name, PyDict([error |-> r.exc]))
      [] OutcomeKind(r) = "none" -> DictPut(agg, tool_name, PyStr(NoDataMessage))
      [] OTHER -> DictPut(agg, tool_name, r.value)

\* variant of Aggregate: the except clause logs the exception and records
\* nothing
Aggregate_DropsException(agg, tool_name, r) ==
    CASE OutcomeKind(r) = "raise" -> agg
      [] OutcomeKind(r) = "error" ->
           LET a == DictPut(agg, tool_name \o "_error", PyStr(r.value.d.error))
           IN  IF Truthy(r.value.d, "details")
               THEN DictPut(a, tool_name \o "_error_details", PyStr(r.value.d.details))
               ELSE a
      [] OutcomeKind(r) = "value" -> DictPut(agg, tool_name, r.value)
      [] OutcomeKind(r) = "none" -> DictPut(agg, tool_name, PyStr(NoDataMessage))

\* variant of Aggregate: an error dict only sets any_execution_error_occurred
Aggregate_DropsErrorDict(agg, tool_name, r) ==
    CASE OutcomeKind(r) = "raise" ->
           DictPut(agg, tool_name \o "_execution_error", PyStr(r.exc))
      [] OutcomeKind(r) = "error" -> agg
      [] OutcomeKind(r) = "value" -> DictPut(agg, tool_name, r.value)
      [] OutcomeKind(r) = "none" -> DictPut(agg, tool_name, PyStr(NoDataMessage))

\* the result check after the dispatch and the except clause: the new
\* aggregated_results
Aggregate(agg, tool_name, r) ==
    CASE OutcomeKind(r) = "raise" ->
           DictPut(agg, tool_name \o "_execution_error", PyStr(r.exc))
      [] OutcomeKind(r) = "error" ->
           LET a == DictPut(agg, tool_name \o "_error", PyStr(r.value.d.error))
           IN  IF Truthy(r.value.d, "details")
               THEN DictPut(a, tool_name \o "_error_details", PyStr(r.value.d.details))
               ELSE a
      [] OutcomeKind(r) = "value" -> DictPut(agg, tool_name, r.value)
      [] OutcomeKind(r) = "none" -> DictPut(agg, tool_name, PyStr(NoDataMessage))

\* whether the call sets any_execution_error_occurred
SetsExecutionError(r) == OutcomeKind(r) # "value"


ErrorDetail(type, message) == [py |-> "ErrorDetail", type |-> type, message |-> message]

QueryResponse(success, answer, data_source_used, error) ==
    [success |-> success, answer |-> answer, data_source_used |-> data_source_used,
     error |-> error]

NoResponse == [py |-> "None"]

\* variant of FinalAnswerPayload: the aggregation is returned for a single
\* action too
FinalAnswerPayload_AlwaysWrapped(acts, agg, any_error) ==
    [py |-> "dict", items |-> agg]

\* final_answer_payload: the first value of aggregated_results for a single
\* action without error, else the whole aggregation
FinalAnswerPayload(acts, agg, any_error) ==
    IF Len(acts) = 1 /\ ~any_error THEN agg[1].v
    ELSE [py |-> "dict", items |-> agg]

\* the keys aggregated_results can hold, and `"error" in key.lower()`
\* tabulated over them
ToolNames == {fc.name : fc \in FunctionCalls}
KeySuffixes == {"", "_error", "_error_details", "_execution_error"}
ErrorKeyTable ==
    [key \in {name \o suffix : name \in ToolNames, suffix \in KeySuffixes} |->
        Contains(Lower(key), "error")]

\* variant of OverallSuccess: success as soon as one result is not an error
OverallSuccess_AnySucceeded(agg, any_error) ==
    \E key \in DictKeys(agg) : ~ErrorKeyTable[key]

\* overall_success
OverallSuccess(agg, any_error) ==
    ~any_error /\ ~(\E key \in DictKeys(agg) : ErrorKeyTable[key])

Range(xs) == {xs[i] : i \in DOMAIN xs}

\* ", ".join(list(set(xs))): the names without repetition, in the set's
\* iteration order; the string is represented by the set of names it joins
JoinSet(xs) == [py |-> "str", joined |-> Range(xs)]

\* the response built after the loop
FinalResponse(acts, agg, any_error, used) ==
    IF Len(agg) = 0
    THEN QueryResponse(FALSE,
             PyStr("LLM suggested actions, but execution yielded no results or errors."),
             PyNone, ErrorDetail("ActionExecutionError", "No data from actions"))
    ELSE QueryResponse(OverallSuccess(agg, any_error),
             FinalAnswerPayload(acts, agg, any_error),
             JoinSet(used),
             IF OverallSuccess(agg, any_error) THEN PyNone
             ELSE ErrorDetail("AggregatedError",
                      "One or more actions had issues. See answer for details."))

\* variant of EarlyResponse: a clarification is reported as a failed request
EarlyResponse_ClarificationFails(decision) ==
    IF Truthy(decision, "error")
    THEN QueryResponse(FALSE, PyNone, PyNone,
                       ErrorDetail("LLMRoutingError", decision.error))
    ELSE IF Truthy(decision, "clarification_needed")
    THEN QueryResponse(FALSE, PyStr(decision.clarification_needed),
                       PyStr("LLM (Clarification)"),
                       ErrorDetail("ClarificationNeeded", decision.clarification_needed))
    ELSE IF Truthy(decision, "direct_answer")
    THEN QueryResponse(TRUE, PyStr(decision.direct_answer),
                       PyStr("LLM (Direct Answer)"), PyNone)
    ELSE IF ~("actions" \in DOMAIN decision /\ Len(decision.actions) > 0)
    THEN QueryResponse(FALSE, PyStr("LLM did not suggest any actionable steps."),
                       PyNone, ErrorDetail("NoActionError", "No action determined by LLM"))
    ELSE PyNone

\* the early returns on the routing decision; PyNone when the handler goes on
\* to the tool loop
EarlyResponse(decision) ==
    IF Truthy(decision, "error")
    THEN QueryResponse(FALSE, PyNone, PyNone,
                       ErrorDetail("LLMRoutingError", decision.error))
    ELSE IF Truthy(decision, "clarification_needed")
    THEN QueryResponse(TRUE, PyStr(decision.clarification_needed),
                       PyStr("LLM (Clarification)"), PyNone)
    ELSE IF Truthy(decision, "direct_answer")
    THEN QueryResponse(TRUE, PyStr(decision.direct_answer),
                       PyStr("LLM (Direct Answer)"), PyNone)
    ELSE IF ~("actions" \in DOMAIN decision /\ Len(decision.actions) > 0)
    THEN QueryResponse(FALSE, PyStr("LLM did not suggest any actionable steps."),
                       PyNone, ErrorDetail("NoActionError", "No action determined by LLM"))
    ELSE PyNone

HeliusServices ==
    {"get_sol_balance_service", "get_spl_token_balances_service",
     "get_nft_holdings_service"}

-----------------------------------------------------------------------------
(* State machine *)

NoDecision == [py |-> "None"]

Init ==
    /\ pc = "boot"
    /\ settings \in [GOOGLE_GEMINI_API_KEY : GeminiKeys, HELIUS_API_KEY : HeliusKeys]
    /\ gemini_configured = FALSE
    /\ gemini_model = "None"
    /\ http_client = "None"
    /\ llm_response = NotCalled
    /\ routing_decision = NoDecision
    /\ actions = <<>>
    /\ idx = 0
    /\ aggregated_results = <<>>
    /\ data_sources_used_list = <<>>
    /\ any_execution_error_occurred = FALSE
    /\ exec_log = <<>>
    /\ response = NoResponse
    /\ ComponentsIdle

\* lifespan, up to the yield: init_http_client and configure_gemini_if_needed
Startup ==
    /\ pc = "boot"
    /\ pc' = "idle"
    /\ http_client' = "open"
    /\ \E raises \in BOOLEAN :
         LET c == ConfigureGemini(gemini_configured, gemini_model,
                                  settings.GOOGLE_GEMINI_API_KEY, raises)
         IN  /\ gemini_configured' = c.configured
             /\ gemini_model' = c.model
    /\ UNCHANGED <<settings, llm_response, routing_decision, actions, idx,
                   aggregated_results, data_sources_used_list,
                   any_execution_error_occurred, exec_log, response, component_vars>>

\* the handler once route_query_with_llm has returned `decision`: the checks
\* on the routing decision and the locals of the tool loop
Decided(c, resp, decision) ==
    LET early == EarlyResponse(decision)
    IN  /\ gemini_configured' = c.configured
        /\ gemini_model' = c.model
        /\ llm_response' = resp
        /\ routing_decision' = decision
        /\ IF early # PyNone
           THEN /\ response' = early
                /\ pc' = "done"
                /\ actions' = <<>>
           ELSE /\ response' = NoResponse
                /\ pc' = "exec"
                /\ actions' = decision.actions
        /\ UNCHANGED <<settings, http_client, idx, aggregated_results,
                       data_sources_used_list, any_execution_error_occurred, exec_log,
                       component_vars>>

\* the handler from the request to the tool loop: route_query_with_llm and
\* the checks on the routing decision
Routed(c, resp) == Decided(c, resp, RouteQueryWithLLM(c.configured, c.model, resp))

RouteQuery ==
    /\ pc = "idle"
    /\ \E raises \in BOOLEAN :
         LET c == ConfigureGemini(gemini_configured, gemini_model,
                                  settings.GOOGLE_GEMINI_API_KEY, raises)
         IN  IF c.model = "None" \/ ~c.configured
             THEN Routed(c, NotCalled)
             ELSE \E resp \in LLMResponses : Routed(c, resp)

\* one iteration of `for action in actions`; nothing is awaited between the
\* last iteration and the return, so the last iteration builds the response.
\* pc = "raised" stands for an exception leaving the handler
ExecuteAction ==
    /\ pc = "exec"
    /\ idx < Len(actions)
    /\ LET tool_name == actions[idx + 1].tool_name
           arguments == actions[idx + 1].arguments
       IN  \E raises \in BOOLEAN :
           LET c == ConfigureGemini(gemini_configured, gemini_model,
                                    settings.GOOGLE_GEMINI_API_KEY, raises)
           IN
           \E r \in {Dispatch(tool_name, arguments, settings.HELIUS_API_KEY,
                               c.configured, c.model, env) :
                      env \in Envs(tool_name)} :
             LET used == Append(data_sources_used_list, "Tool: " \o tool_name)
                 agg == Aggregate(aggregated_results, tool_name, r)
                 any_error == any_execution_error_occurred \/ SetsExecutionError(r)
                 uncaught == r.kind = "raise" /\ ~Catches(r.cls)
             IN  /\ data_sources_used_list' = used
                 /\ exec_log' = Append(exec_log,
                        [tool_name |-> tool_name, arguments |-> arguments,
                         kind |-> r.kind, outcome |-> OutcomeKind(r),
                         value |-> r.value, exc |-> r.exc,
                         services |-> r.services, backend_error |-> r.backend_error,
                         llm_text |-> r.llm_text])
                 /\ http_client' = IF r.services \cap HeliusServices # {}
                                   THEN "open" ELSE http_client
                 \* analyze_sentiment_with_llm calls configure_gemini_if_needed
                 /\ gemini_configured' =
                        IF "analyze_sentiment_with_llm" \in r.services
                        THEN c.configured ELSE gemini_configured
                 /\ gemini_model' =
                        IF "analyze_sentiment_with_llm" \in r.services
                        THEN c.model ELSE gemini_model
                 /\ IF uncaught
                    THEN /\ pc' = "raised"
                         /\ UNCHANGED <<aggregated_results,
                                        any_execution_error_occurred, response>>
                    ELSE /\ aggregated_results' = agg
                         /\ any_execution_error_occurred' = any_error
                         /\ IF idx + 1 = Len(actions)
                            THEN /\ response' =
                                      FinalResponse(actions, agg, any_error, used)
                                 /\ pc' = "done"
                            ELSE /\ response' = response
                                 /\ pc' = "exec"
    /\ idx' = idx + 1
    /\ UNCHANGED <<settings, llm_response, routing_decision, actions,
                   component_vars>>

\* the next request starts with fresh handler locals
NextRequest ==
    /\ pc = "done"
    /\ pc' = "idle"
    /\ llm_response' = NotCalled
    /\ routing_decision' = NoDecision
    /\ actions' = <<>>
    /\ idx' = 0
    /\ aggregated_results' = <<>>
    /\ data_sources_used_list' = <<>>
    /\ any_execution_error_occurred' = FALSE
    /\ exec_log' = <<>>
    /\ response' = NoResponse
    /\ UNCHANGED <<settings, gemini_configured, gemini_model, http_client,
                   component_vars>>

Next == Startup \/ RouteQuery \/ ExecuteAction \/ NextRequest

Spec == Init /\ [][Next]_vars

(* The handler behind a stubbed router: handle_query_endpoint reads whatever
   dict route_query_with_llm hands back, so the decision is drawn from the
   dicts the handler has branches for, the empty action list of main.py
   50-54 and 158-160 included. *)

StubResponses ==
    {[kind |-> "response", parts |-> parts] :
        parts \in {<<>>, <<TextPart("Which wallet?")>>,
                   <<TextPart("Solana is a blockchain.")>>}
                  \cup {<<fc>> : fc \in FunctionCalls}}

StubDecisions ==
    {[actions |-> <<>>]}
    \cup {RouteQueryWithLLM(TRUE, "model", resp) : resp \in StubResponses}

RouteQueryStub ==
    /\ pc = "idle"
    /\ \E decision \in StubDecisions :
         Decided([configured |-> gemini_configured, model |-> gemini_model],
                 NotCalled, decision)

HandlerNext == Startup \/ RouteQueryStub \/ ExecuteAction \/ NextRequest

SpecHandler == Init /\ [][HandlerNext]_vars

-----------------------------------------------------------------------------
(* Properties of the /query endpoint *)

\* the handler has returned the response of a tool batch
BatchDone == pc = "done" /\ Len(actions) > 0

\* a call produced a non-error, non-null value: it returned, not None, and
\* not a dict with a non-empty "error" entry
Succeeded(e) ==
    /\ e.kind = "return"
    /\ e.value.py # "None"
    /\ ~(e.value.py = "dict" /\ "error" \in DOMAIN e.value.d /\ e.value.d.error # "")

\* the error text of a call that did not succeed
ErrorOf(e) ==
    IF e.kind = "raise" THEN e.exc
    ELSE IF e.value.py = "None" THEN NoDataMessage
    ELSE e.value.d.error

Calls == 1..Len(exec_log)

\* C1: the response of a tool batch has success = true if and only if every
\* call of the batch was executed and produced a non-error, non-null value.
C1_SuccessIffAllSucceeded ==
    BatchDone =>
        /\ Len(exec_log) = Len(actions)
        /\ response.success <=> \A i \in Calls : Succeeded(exec_log[i])

C1_Witness ==
    /\ BatchDone
    /\ Len(exec_log) = 2
    /\ Succeeded(exec_log[1])
    /\ exec_log[2].outcome = "error"
    /\ ~response.success

\* C2 (as claimed): in a batch of two or more calls with a failed call, success
\* is false and the answer holds the value of every call that succeeded and
\* the error of every call that failed.
C2_PartialFailureKeepsEverything ==
    (BatchDone /\ Len(exec_log) >= 2 /\ \E i \in Calls : ~Succeeded(exec_log[i])) =>
        /\ ~response.success
        /\ "items" \in DOMAIN response.answer
        /\ \A i \in Calls :
             \E j \in 1..Len(response.answer.items) :
               response.answer.items[j].v =
                   IF Succeeded(exec_log[i]) THEN exec_log[i].value
                   ELSE PyStr(ErrorOf(exec_log[i]))

\* C3: a single tool call that succeeds is answered with its bare value, not
\* with the aggregation keyed by tool name, and success = true.
C3_SingleSuccessBare ==
    (BatchDone /\ Len(actions) = 1 /\ Succeeded(exec_log[1])) =>
        /\ response.success
        /\ response.answer = exec_log[1].value
        /\ "items" \notin DOMAIN response.answer

C3_Witness ==
    /\ BatchDone
    /\ Len(actions) = 1
    /\ Succeeded(exec_log[1])
    /\ response.answer = exec_log[1].value
    /\ response.answer.py = "dict"

NotSingleSuccess == ~(Len(actions) = 1 /\ Succeeded(exec_log[1]))

\* C4 (as claimed): when the batch is not a single successful call, the answer
\* is a mapping whose keys are exactly the tool names of the calls, each mapped
\* to a call's value or to an error record.
C4_AnswerKeyedByToolName ==
    (BatchDone /\ NotSingleSuccess) =>
        /\ "items" \in DOMAIN response.answer
        /\ DictKeys(response.answer.items) = {exec_log[i].tool_name : i \in Calls}
        /\ \A j \in 1..Len(response.answer.items) :
             \E i \in Calls :
               /\ exec_log[i].tool_name = response.answer.items[j].k
               /\ IF Succeeded(exec_log[i])
                  THEN response.answer.items[j].v = exec_log[i].value
                  ELSE /\ response.answer.items[j].v.py = "dict"
                       /\ response.answer.items[j].v.d.error = ErrorOf(exec_log[i])

\* the keys one call writes, and what it writes under each
CallKeys(e) ==
    IF e.kind = "raise" THEN {e.tool_name \o "_execution_error"}
    ELSE IF Succeeded(e) \/ e.value.py = "None" THEN {e.tool_name}
    ELSE {e.tool_name \o "_error"}
         \cup (IF "details" \in DOMAIN e.value.d /\ e.value.d.details # ""
               THEN {e.tool_name \o "_error_details"} ELSE {})

Written(e, key) ==
    IF e.kind = "raise" THEN PyStr(e.exc)
    ELSE IF Succeeded(e) THEN e.value
    ELSE IF e.value.py = "None" THEN PyStr(NoDataMessage)
    ELSE IF key = e.tool_name \o "_error" THEN PyStr(e.value.d.error)
    ELSE PyStr(e.value.d.details)

LastWriter(key) ==
    CHOOSE i \in Calls :
        /\ key \in CallKeys(exec_log[i])
        /\ \A m \in Calls : key \in CallKeys(exec_log[m]) => m <= i

\* C4 (amended): when the batch is not a single successful call, the answer is
\* the aggregation: a successful call is stored under its tool name, a call
\* returning an error dict under tool_name + "_error" (its details, if any,
\* under tool_name + "_error_details"), a raising call under tool_name +
\* "_execution_error", each as a string; the keys are exactly these, and each
\* holds what the last call writing it stored.
C4_AnswerIsSuffixedAggregation ==
    (BatchDone /\ NotSingleSuccess) =>
        /\ "items" \in DOMAIN response.answer
        /\ response.answer.items = aggregated_results
        /\ DictKeys(aggregated_results) = UNION {CallKeys(exec_log[i]) : i \in Calls}
        /\ \A j \in 1..Len(aggregated_results) :
             aggregated_results[j].v =
                 Written(exec_log[LastWriter(aggregated_results[j].k)],
                         aggregated_results[j].k)

C4_Witness ==
    /\ BatchDone
    /\ Len(exec_log) = 2
    /\ Succeeded(exec_log[1])
    /\ exec_log[2].outcome = "error"
    /\ "details" \in DOMAIN exec_log[2].value.d
    /\ DictKeys(response.answer.items) =
           {exec_log[1].tool_name, exec_log[2].tool_name \o "_error",
            exec_log[2].tool_name \o "_error_details"}

\* C5: a routing decision that is a clarification, a direct answer or an
\* error ends the request without executing a tool: success = true with the
\* text as answer for the first two, success = false for the error.
C5_TerminalDecisions ==
    /\ "actions" \notin DOMAIN routing_decision => (exec_log = <<>> /\ pc # "exec")
    /\ (pc = "done" /\ "clarification_needed" \in DOMAIN routing_decision) =>
           /\ response.success
           /\ response.answer = PyStr(routing_decision.clarification_needed)
    /\ (pc = "done" /\ "direct_answer" \in DOMAIN routing_decision) =>
           /\ response.success
           /\ response.answer = PyStr(routing_decision.direct_answer)
    /\ (pc = "done" /\ "error" \in DOMAIN routing_decision) => ~response.success

C5_Witness ==
    /\ pc = "done"
    /\ "clarification_needed" \in DOMAIN routing_decision
    /\ response.answer = PyStr("Which wallet?")
    /\ exec_log = <<>>

\* C6: no exception leaves the handler; whatever the routing decision and the
\* tool outcomes, it returns a response, whose error field is set exactly
\* when success is false.
C6_NeverRaises ==
    /\ pc # "raised"
    /\ pc = "exec" => idx < Len(actions)
    /\ pc = "done" =>
           /\ "success" \in DOMAIN response
           /\ (response.error # PyNone) <=> ~response.success

C6_Witness ==
    /\ pc = "done"
    /\ Len(exec_log) = 2
    /\ exec_log[1].kind = "raise"
    /\ exec_log[2].outcome = "error"
    /\ response.error # PyNone
    /\ response.error.type = "AggregatedError"

\* C7: an exception raised by a tool call is caught in the loop iteration and
\* stored as str(e) under that call's execution-error key; it does not leave
\* the handler, and the calls after it are still executed.
C7_ExceptionCaughtPerCall ==
    /\ pc # "raised"
    /\ BatchDone => Len(exec_log) = Len(actions)
    /\ \A i \in Calls :
         exec_log[i].kind = "raise" =>
            /\ any_execution_error_occurred
            /\ i < Len(actions) => (pc = "exec" \/ Len(exec_log) > i)
            /\ (exec_log[i].tool_name \o "_execution_error")
                   \in DictKeys(aggregated_results)
            /\ (\A m \in Calls : (m > i /\ exec_log[m].kind = "raise")
                                    => exec_log[m].tool_name # exec_log[i].tool_name)
                 => DictGet(aggregated_results,
                            exec_log[i].tool_name \o "_execution_error")
                        = PyStr(exec_log[i].exc)

C7_Witness ==
    /\ BatchDone
    /\ Len(exec_log) = 2
    /\ exec_log[1].kind = "raise"
    /\ Succeeded(exec_log[2])
    /\ DictGet(aggregated_results, exec_log[1].tool_name \o "_execution_error")
           = PyStr(exec_log[1].exc)

\* C8 (as claimed): a call whose tool name is not in SOLQUERY_TOOL_CONFIG
\* reaches no backing service and yields an error result.
C8_UnregisteredNeverReachesService ==
    \A i \in Calls :
        exec_log[i].tool_name \notin SOLQUERY_TOOL_CONFIG =>
            /\ exec_log[i].services = {}
            /\ exec_log[i].outcome = "error"

\* C9 (as claimed): when a backing service of a tool call reports a failure,
\* the call's result is an error and the response has success = false.
C9_BackendFailureIsError ==
    \A i \in Calls :
        exec_log[i].backend_error =>
            /\ ~Succeeded(exec_log[i])
            /\ pc = "done" => ~response.success

RoutingCallFailed == pc = "done" /\ llm_response.kind \in {"raises", "not_called"}

\* C10 (as claimed): when the routing call fails, the response has
\* success = false and error.type = "RoutingError", and no tool is executed.
C10_RoutingFailureIsRoutingError ==
    RoutingCallFailed =>
        /\ ~response.success
        /\ response.error # PyNone
        /\ response.error.type = "RoutingError"
        /\ exec_log = <<>>

\* C10 (amended): when the routing call fails (the LLM call raises, or the
\* LLM is not configured), the response has success = false and
\* error.type = "LLMRoutingError", and no tool is executed.
C10_RoutingFailureIsLLMRoutingError ==
    RoutingCallFailed =>
        /\ ~response.success
        /\ response.error # PyNone
        /\ response.error.type = "LLMRoutingError"
        /\ exec_log = <<>>

C10_Witness ==
    /\ pc = "done"
    /\ llm_response.kind = "raises"
    /\ response.error # PyNone
    /\ response.error.type = "LLMRoutingError"
    /\ response.error.message = "Gemini API routing error: " \o LLMException

EmptyLLMResponse ==
    /\ llm_response.kind = "response"
    /\ ActionsToTake(llm_response.parts) = <<>>
    /\ ResponseText(llm_response.parts) = ""

\* C12 (as claimed): when the LLM returns neither a function call nor text,
\* the response has success = false and error.type = "NoActionError".
C12_EmptyLLMResponseIsNoActionError ==
    (pc = "done" /\ EmptyLLMResponse) =>
        /\ ~response.success
        /\ response.error # PyNone
        /\ response.error.type = "NoActionError"

\* C13 (as claimed): a function call whose name is not in the tool catalog
\* is dropped by the router: no action handed to the handler names a tool
\* outside SOLQUERY_TOOL_CONFIG, and the other calls of the LLM are kept.
C13_UnknownToolDropped ==
    llm_response.kind = "response" =>
        /\ \A i \in 1..Len(actions) : actions[i].tool_name \in SOLQUERY_TOOL_CONFIG
        /\ "actions" \in DOMAIN routing_decision =>
               \A i \in 1..Len(routing_decision.actions) :
                   routing_decision.actions[i].tool_name \in SOLQUERY_TOOL_CONFIG

\* the parameters a declaration of tool_definitions.py lists as required and
\* for which the dispatch has no default (wallet_address falls back to
\* DEFAULT_TEST_WALLET)
RequiredNoDefault ==
    [t \in SOLQUERY_TOOL_CONFIG |->
        CASE t = "find_fukuoka_local_services" -> {"category"}
          [] t = "get_fukuoka_events" -> {"timeframe"}
          [] t = "get_crypto_payment_info" -> {"topic"}
          [] t = "analyze_text_sentiment" -> {"text_to_analyze", "topic"}
          [] OTHER -> {}]

MissingParams(e) ==
    IF e.tool_name \in SOLQUERY_TOOL_CONFIG
    THEN {p \in RequiredNoDefault[e.tool_name] : p \notin DOMAIN e.arguments}
    ELSE {}

\* C14 (as claimed): a call of a registered tool that omits a required
\* parameter without default yields the error result
\* "missing parameter: <name>" and invokes no backing service.
C14_MissingParameterError ==
    \A i \in Calls :
        MissingParams(exec_log[i]) # {} =>
            /\ exec_log[i].services = {}
            /\ ~Succeeded(exec_log[i])
            /\ \E p \in MissingParams(exec_log[i]) :
                   ErrorOf(exec_log[i]) = "missing parameter: " \o p

\* C14 (amended): a call of a registered tool that omits a required
\* parameter without default raises before any backing service runs; the
\* exception text (Python's "<service>() missing 1 required positional
\* argument: '<name>'", or the handler's "Missing 'text_to_analyze' or
\* 'topic' ..." for analyze_text_sentiment) is recorded under the call's
\* execution-error key and the response is a failure.
C14_MissingParameterRaises ==
    \A i \in Calls :
        MissingParams(exec_log[i]) # {} =>
            /\ exec_log[i].services = {}
            /\ exec_log[i].kind = "raise"
            /\ IF exec_log[i].tool_name = "analyze_text_sentiment"
               THEN exec_log[i].exc =
                      "Missing 'text_to_analyze' or 'topic' for analyze_text_sentiment tool."
               ELSE \E p \in MissingParams(exec_log[i]) :
                      exec_log[i].exc = exec_log[i].tool_name
                          \o "_service() missing 1 required positional argument: '"
                          \o p \o "'"
            /\ (exec_log[i].tool_name \o "_execution_error")
                   \in DictKeys(aggregated_results)
            /\ pc = "done" => ~response.success

C14_Witness ==
    /\ pc = "done"
    /\ Len(exec_log) = 2
    /\ exec_log[1].tool_name = "find_fukuoka_local_services"
    /\ MissingParams(exec_log[1]) = {"category"}
    /\ exec_log[2].tool_name = "analyze_text_sentiment"
    /\ MissingParams(exec_log[2]) = {"text_to_analyze"}
    /\ DictKeys(aggregated_results) =
           {"find_fukuoka_local_services_execution_error",
            "analyze_text_sentiment_execution_error"}

\* C15: the tool loop executes the calls of the batch one by one in the order
\* of the routing decision, whatever the earlier calls produced: the k-th
\* execution is the k-th call, the loop is never left early, and the response
\* of a batch of N calls comes after exactly N executions.
C15_OneExecutionPerCall ==
    /\ pc # "raised"
    /\ Len(exec_log) = idx
    /\ \A i \in Calls :
         /\ i <= Len(actions)
         /\ exec_log[i].tool_name = actions[i].tool_name
         /\ exec_log[i].arguments = actions[i].arguments
    /\ pc = "exec" => Len(exec_log) < Len(actions)
    /\ BatchDone => Len(exec_log) = Len(actions)

C15_Witness ==
    /\ BatchDone
    /\ Len(exec_log) = MaxActions
    /\ exec_log[1].outcome = "error"
    /\ exec_log[MaxActions].kind = "raise"
    /\ exec_log[MaxActions].tool_name = actions[MaxActions].tool_name

\* the loop of main.py 61-156 run over the executed calls `es`, each with the
\* outcome it had: the aggregation it builds and the error flag it sets
RECURSIVE AggregateAll(_)
AggregateAll(es) ==
    IF es = <<>> THEN <<>>
    ELSE Aggregate(AggregateAll(SubSeq(es, 1, Len(es) - 1)),
                   es[Len(es)].tool_name, es[Len(es)])

AnyExecutionError(es) == \E i \in 1..Len(es) : SetsExecutionError(es[i])

\* a dict compared as a mapping, insertion order left out
AsMapping(od) == [k \in DictKeys(od) |-> DictGet(od, k)]

Reordered(es, perm) == [i \in 1..Len(es) |-> es[perm[i]]]

\* C16 (as claimed): the batch run in any other order, every call keeping its
\* outcome, gives the same success flag and the same answer content as the
\* order that was run.
C16_OrderIndependent ==
    BatchDone =>
        \A perm \in Permutations(1..Len(exec_log)) :
            /\ OverallSuccess(AggregateAll(Reordered(exec_log, perm)),
                              AnyExecutionError(Reordered(exec_log, perm)))
                   = response.success
            /\ AsMapping(AggregateAll(Reordered(exec_log, perm)))
                   = AsMapping(aggregated_results)

\* the Helius posts a tool makes, by the field of the call's environment that
\* holds their outcome
HttpCalls(tool_name) ==
    CASE tool_name = "get_sol_balance" -> {"h1"}
      [] tool_name = "get_spl_token_balances" -> {"h1", "h2"}
      [] tool_name = "get_nft_holdings" -> {"h3"}
      [] tool_name = "get_wallet_portfolio_summary" -> {"h1", "h2", "h3"}
      [] OTHER -> {}

\* httpx raises a timeout as a RequestError; with the key missing no post is made
TimedOut(tool_name, key, env) ==
    /\ ~KeyMissing(key)
    /\ \E f \in HttpCalls(tool_name) : env[f] = "request_error"

\* C17 (as claimed): whichever Helius post of the call about to be executed
\* times out, the call's result is the error "timeout"; the batch is not
\* aborted and its other calls are executed.
C17_TimeoutIsErrorResult ==
    /\ pc # "raised"
    /\ BatchDone => Len(exec_log) = Len(actions)
    /\ pc = "exec" =>
         \A env \in Envs(actions[idx + 1].tool_name) :
             TimedOut(actions[idx + 1].tool_name, settings.HELIUS_API_KEY, env) =>
                 /\ OutcomeKind(Dispatch(actions[idx + 1].tool_name,
                                         actions[idx + 1].arguments,
                                         settings.HELIUS_API_KEY, gemini_configured,
                                         gemini_model, env)) = "error"
                 /\ Dispatch(actions[idx + 1].tool_name, actions[idx + 1].arguments,
                             settings.HELIUS_API_KEY, gemini_configured,
                             gemini_model, env).value.d.error = "timeout"

DecisionVariants == {"error", "clarification_needed", "direct_answer", "actions"}

\* C18: the dict route_query_with_llm returns has exactly one of the keys
\* error, clarification_needed, direct_answer, actions, with a non-empty
\* value, and the handler has a branch for each: a failed response of type
\* LLMRoutingError, the clarification, the direct answer, or the tool loop
\* over the actions.
C18_ExactlyOneVariant ==
    routing_decision # NoDecision =>
        /\ DOMAIN routing_decision \subseteq DecisionVariants
        /\ Cardinality(DOMAIN routing_decision) = 1
        /\ "actions" \in DOMAIN routing_decision =>
               /\ Len(routing_decision.actions) > 0
               /\ actions = routing_decision.actions
               /\ pc \in {"exec", "done"}
        /\ "error" \in DOMAIN routing_decision =>
               /\ routing_decision.error # ""
               /\ pc = "done"
               /\ response.error = ErrorDetail("LLMRoutingError", routing_decision.error)
        /\ "clarification_needed" \in DOMAIN routing_decision =>
               /\ routing_decision.clarification_needed # ""
               /\ pc = "done"
               /\ response.data_source_used = PyStr("LLM (Clarification)")
        /\ "direct_answer" \in DOMAIN routing_decision =>
               /\ routing_decision.direct_answer # ""
               /\ pc = "done"
               /\ response.data_source_used = PyStr("LLM (Direct Answer)")

C18_Witness ==
    /\ pc = "exec"
    /\ llm_response.kind = "response"
    /\ \E i \in 1..Len(llm_response.parts) : IsText(llm_response.parts[i])
    /\ DOMAIN routing_decision = {"actions"}
    /\ Len(routing_decision.actions) = 1

\* C19: a response of the LLM with one or more function calls is routed to
\* the actions made of all of them, in the order returned, whatever text
\* comes with them; with none, a text with a question mark or the marker
\* "clarification_needed" (in any case) is a clarification, any other
\* non-empty text a direct answer.
C19_Classification ==
    (llm_response.kind = "response" /\ routing_decision # NoDecision) =>
        LET fcs == SelectSeq(llm_response.parts, IsFunctionCall)
            text == ResponseText(llm_response.parts)
        IN  /\ Len(fcs) > 0 =>
                 /\ DOMAIN routing_decision = {"actions"}
                 /\ Len(routing_decision.actions) = Len(fcs)
                 /\ \A i \in 1..Len(fcs) :
                      /\ routing_decision.actions[i].tool_name = fcs[i].name
                      /\ routing_decision.actions[i].arguments = fcs[i].args
            /\ (Len(fcs) = 0 /\ text # "") =>
                 IF Contains(text, "?") \/ Contains(Lower(text), "clarification_needed")
                 THEN routing_decision = [clarification_needed |-> text]
                 ELSE routing_decision = [direct_answer |-> text]

C19_Witness ==
    /\ pc = "done"
    /\ llm_response.kind = "response"
    /\ Len(llm_response.parts) = 2
    /\ \A i \in 1..2 : IsText(llm_response.parts[i])
    /\ ~Contains(ResponseText(llm_response.parts), "?")
    /\ "clarification_needed" \in DOMAIN routing_decision

-----------------------------------------------------------------------------
(* Two requests in flight: the event loop runs one handler until it awaits
   (route_query_with_llm, a service call) and may then run the other. The
   variables of the handler hold one value per request; settings, the Gemini
   globals of llm_service.py and http_client are shared by the requests. *)

Requests == {"r1", "r2"}

\* variant of Frame: the three collections live at module level
Frame_ModuleLevel(q) == "r1"

\* the frame that holds aggregated_results, data_sources_used_list and
\* any_execution_error_occurred of request q: they are locals, created by
\* each call of the handler
Frame(q) == q

\* the LLM responses the two requests draw from
ConcurrentResponses ==
    {[kind |-> "raises", exc |-> LLMException]}
    \cup {[kind |-> "response", parts |-> parts] :
            parts \in {<<TextPart("Which wallet?")>>,
                       <<FunctionCall("get_sol_balance", NoArgs)>>,
                       <<FunctionCall("find_fukuoka_local_services", NoArgs),
                         FunctionCall("get_text_for_sentiment", NoArgs)>>,
                       <<FunctionCall("find_fukuoka_local_services", [category |-> "Cafe"]),
                         FunctionCall("get_sol_balance", NoArgs)>>}}

ConcurrentInit ==
    /\ settings \in [GOOGLE_GEMINI_API_KEY : GeminiKeys, HELIUS_API_KEY : HeliusKeys]
    /\ gemini_configured = FALSE
    /\ gemini_model = "None"
    /\ http_client = "None"
    /\ pc = [q \in Requests |-> "boot"]
    /\ llm_response = [q \in Requests |-> NotCalled]
    /\ routing_decision = [q \in Requests |-> NoDecision]
    /\ actions = [q \in Requests |-> <<>>]
    /\ idx = [q \in Requests |-> 0]
    /\ aggregated_results = [q \in Requests |-> <<>>]
    /\ data_sources_used_list = [q \in Requests |-> <<>>]
    /\ any_execution_error_occurred = [q \in Requests |-> FALSE]
    /\ exec_log = [q \in Requests |-> <<>>]
    /\ response = [q \in Requests |-> NoResponse]
    /\ ComponentsIdle

\* lifespan, before any request is served
ConcurrentStartup ==
    /\ \A q \in Requests : pc[q] = "boot"
    /\ pc' = [q \in Requests |-> "idle"]
    /\ http_client' = "open"
    /\ \E raises \in BOOLEAN :
         LET c == ConfigureGemini(gemini_configured, gemini_model,
                                  settings.GOOGLE_GEMINI_API_KEY, raises)
         IN  /\ gemini_configured' = c.configured
             /\ gemini_model' = c.model
    /\ UNCHANGED <<settings, llm_response, routing_decision, actions, idx,
                   aggregated_results, data_sources_used_list,
                   any_execution_error_occurred, exec_log, response, component_vars>>

\* request q from its arrival to its first tool call
ConcurrentDecided(q, c, resp) ==
    LET decision == RouteQueryWithLLM(c.configured, c.model, resp)
        early == EarlyResponse(decision)
    IN  /\ gemini_configured' = c.configured
        /\ gemini_model' = c.model
        /\ llm_response' = [llm_response EXCEPT ![q] = resp]
        /\ routing_decision' = [routing_decision EXCEPT ![q] = decision]
        /\ IF early # PyNone
           THEN /\ response' = [response EXCEPT ![q] = early]
                /\ pc' = [pc EXCEPT ![q] = "done"]
                /\ UNCHANGED <<actions, aggregated_results, data_sources_used_list,
                               any_execution_error_occurred>>
           ELSE /\ pc' = [pc EXCEPT ![q] = "exec"]
                /\ actions' = [actions EXCEPT ![q] = decision.actions]
                /\ aggregated_results' = [aggregated_results EXCEPT ![Frame(q)] = <<>>]
                /\ data_sources_used_list' =
                       [data_sources_used_list EXCEPT ![Frame(q)] = <<>>]
                /\ any_execution_error_occurred' =
                       [any_execution_error_occurred EXCEPT ![Frame(q)] = FALSE]
                /\ UNCHANGED response
        /\ UNCHANGED <<settings, http_client, idx, exec_log, component_vars>>

ConcurrentRoute(q) ==
    /\ pc[q] = "idle"
    /\ \E raises \in BOOLEAN :
         LET c == ConfigureGemini(gemini_configured, gemini_model,
                                  settings.GOOGLE_GEMINI_API_KEY, raises)
         IN  IF c.model = "None" \/ ~c.configured
             THEN ConcurrentDecided(q, c, NotCalled)
             ELSE \E resp \in ConcurrentResponses : ConcurrentDecided(q, c, resp)

\* one iteration of the tool loop of request q
ConcurrentExecute(q) ==
    /\ pc[q] = "exec"
    /\ idx[q] < Len(actions[q])
    /\ LET tool_name == actions[q][idx[q] + 1].tool_name
           arguments == actions[q][idx[q] + 1].arguments
       IN  \E raises \in BOOLEAN :
           LET c == ConfigureGemini(gemini_configured, gemini_model,
                                    settings.GOOGLE_GEMINI_API_KEY, raises)
           IN
           \E r \in {Dispatch(tool_name, arguments, settings.HELIUS_API_KEY,
                               c.configured, c.model, env) :
                      env \in Envs(tool_name)} :
             LET used == Append(data_sources_used_list[Frame(q)], "Tool: " \o tool_name)
                 agg == Aggregate(aggregated_results[Frame(q)], tool_name, r)
                 any_error == any_execution_error_occurred[Frame(q)]
                                  \/ SetsExecutionError(r)
                 uncaught == r.kind = "raise" /\ ~Catches(r.cls)
             IN  /\ data_sources_used_list' =
                        [data_sources_used_list EXCEPT ![Frame(q)] = used]
                 /\ exec_log' = [exec_log EXCEPT ![q] = Append(@,
                        [tool_name |-> tool_name, arguments |-> arguments,
                         kind |-> r.kind, outcome |-> OutcomeKind(r),
                         value |-> r.value, exc |-> r.exc,
                         services |-> r.services, backend_error |-> r.backend_error,
                         llm_text |-> r.llm_text])]
                 /\ http_client' = IF r.services \cap HeliusServices # {}
                                   THEN "open" ELSE http_client
                 /\ gemini_configured' =
                        IF "analyze_sentiment_with_llm" \in r.services
                        THEN c.configured ELSE gemini_configured
                 /\ gemini_model' =
                        IF "analyze_sentiment_with_llm" \in r.services
                        THEN c.model ELSE gemini_model
                 /\ IF uncaught
                    THEN /\ pc' = [pc EXCEPT ![q] = "raised"]
                         /\ UNCHANGED <<aggregated_results,
                                        any_execution_error_occurred, response>>
                    ELSE /\ aggregated_results' =
                                [aggregated_results EXCEPT ![Frame(q)] = agg]
                         /\ any_execution_error_occurred' =
                                [any_execution_error_occurred EXCEPT ![Frame(q)] = any_error]
                         /\ IF idx[q] + 1 = Len(actions[q])
                            THEN /\ response' = [response EXCEPT ![q] =
                                      FinalResponse(actions[q], agg, any_error, used)]
                                 /\ pc' = [pc EXCEPT ![q] = "done"]
                            ELSE /\ response' = response
                                 /\ pc' = [pc EXCEPT ![q] = "exec"]
    /\ idx' = [idx EXCEPT ![q] = @ + 1]
    /\ UNCHANGED <<settings, llm_response, routing_decision, actions,
                   component_vars>>

ConcurrentNext ==
    \/ ConcurrentStartup
    \/ \E q \in Requests : ConcurrentRoute(q)
    \/ \E q \in Requests : ConcurrentExecute(q)

SpecConcurrent == ConcurrentInit /\ [][ConcurrentNext]_vars

\* the response of a request run alone with routing decision `decision` and
\* the tool outcomes of `log`
SoloResponse(decision, log) ==
    IF EarlyResponse(decision) # PyNone THEN EarlyResponse(decision)
    ELSE FinalResponse(decision.actions, AggregateAll(log), AnyExecutionError(log),
                       [i \in 1..Len(log) |-> "Tool: " \o log[i].tool_name])

\* C20: with two requests interleaved at their awaits, the response of each
\* (success, answer, data sources, error) is the one it produces alone from
\* its own routing decision and its own tool outcomes, and each request
\* executes its own calls only.
C20_RequestsDoNotInterfere ==
    \A q \in Requests :
        /\ pc[q] # "raised"
        /\ \A i \in 1..Len(exec_log[q]) :
             /\ exec_log[q][i].tool_name = actions[q][i].tool_name
             /\ exec_log[q][i].arguments = actions[q][i].arguments
        /\ pc[q] = "done" =>
             response[q] = SoloResponse(routing_decision[q], exec_log[q])

C20_Witness ==
    /\ \A q \in Requests : pc[q] = "done" /\ Len(exec_log[q]) = 2
    /\ exec_log["r1"][1].kind = "raise"
    /\ exec_log["r2"][1].kind = "return"
    /\ response["r1"] # response["r2"]
    /\ ~response["r1"].success
    /\ response["r2"].success

-----------------------------------------------------------------------------
(* Further properties of the /query endpoint *)

\* C21 (as claimed): the batch get_sol_balance, get_nft_collection_sentiment
\* with no backing service failing is answered with success = true and the
\* mapping of exactly these two tool names to the two values.
C21_BalanceAndCollectionSentiment ==
    (/\ BatchDone
     /\ Len(actions) = 2
     /\ actions[1].tool_name = "get_sol_balance"
     /\ actions[2].tool_name = "get_nft_collection_sentiment"
     /\ \A i \in Calls : ~exec_log[i].backend_error) =>
        /\ response.success
        /\ "items" \in DOMAIN response.answer
        /\ DictKeys(response.answer.items) =
               {"get_sol_balance", "get_nft_collection_sentiment"}
        /\ \A i \in Calls :
               DictGet(response.answer.items, exec_log[i].tool_name) = exec_log[i].value

\* the LLM did what the routing instruction asks for when information is
\* missing: its only function call is request_clarification
ClarificationRequested ==
    /\ llm_response.kind = "response"
    /\ Len(ActionsToTake(llm_response.parts)) = 1
    /\ ActionsToTake(llm_response.parts)[1].tool_name = "request_clarification"

\* C22 (as claimed): when the LLM calls request_clarification, the response
\* is a clarification (success = true, the question as answer) and no tool
\* is executed.
C22_RequestClarificationCall ==
    ClarificationRequested =>
        /\ exec_log = <<>>
        /\ pc = "done"
        /\ response.success
        /\ response.answer = PyStr(ActionsToTake(llm_response.parts)[1].arguments.question)

\* C23 (as claimed): an analyze_text_sentiment call that supplies
\* text_to_analyze and topic fetches no text, and the text handed to the
\* sentiment LLM is the caller's text_to_analyze.
C23_AnalyzesSuppliedText ==
    \A i \in Calls :
        (/\ exec_log[i].tool_name = "analyze_text_sentiment"
         /\ Arg(exec_log[i].arguments, "text_to_analyze", "") # ""
         /\ Arg(exec_log[i].arguments, "topic", "") # "") =>
            /\ "get_text_for_sentiment_service" \notin exec_log[i].services
            /\ "analyze_sentiment_with_llm" \in exec_log[i].services
            /\ exec_log[i].llm_text = exec_log[i].arguments.text_to_analyze


\* C28: in the tool loop every executed action writes at least one entry of
\* the aggregated results, so after a non-empty action list the aggregated
\* results are never empty and the "ActionExecutionError" ("No data from
\* actions") response is never produced.
C28_AggregationNeverEmpty ==
    /\ (pc \in {"exec", "done"} /\ Len(exec_log) > 0) =>
            /\ Len(aggregated_results) > 0
            /\ \A i \in Calls :
                  CallKeys(exec_log[i]) \subseteq DictKeys(aggregated_results)
    /\ (pc = "done" /\ response.error # PyNone) =>
            response.error.type # "ActionExecutionError"

\* a batch whose only call returned an error dict: the aggregation holds its
\* "_error" entry and the response is an AggregatedError
C28_Witness ==
    /\ BatchDone
    /\ Len(exec_log) = 1
    /\ exec_log[1].outcome = "error"
    /\ Len(aggregated_results) > 0
    /\ response.error # PyNone
    /\ response.error.type = "AggregatedError"

-----------------------------------------------------------------------------
(* services/llm_service.py on its own: configure_gemini_if_needed,           *)
(* route_query_with_llm and analyze_sentiment_with_llm called in any order   *)

LLMServiceResponses ==
    {[kind |-> "raises", exc |-> LLMException]} \cup StubResponses

SentimentTexts == {"SOL to the moon", "Mad Lads floor is falling"}
SentimentTopics == {"", "SOL"}

\* no analyze_sentiment_with_llm call has returned yet
NoSentimentCall == [pc |-> "idle"]

LLMInit ==
    /\ pc = "llm_service"
    /\ settings \in [GOOGLE_GEMINI_API_KEY : GeminiKeys, HELIUS_API_KEY : {"helius-key"}]
    /\ gemini_configured = FALSE
    /\ gemini_model = "None"
    /\ http_client = "None"
    /\ llm_response = NotCalled
    /\ routing_decision = NoDecision
    /\ actions = <<>>
    /\ idx = 0
    /\ aggregated_results = <<>>
    /\ data_sources_used_list = <<>>
    /\ any_execution_error_occurred = FALSE
    /\ exec_log = <<>>
    /\ response = NoResponse
    /\ sentiment_call = NoSentimentCall
    /\ client_pool = NotStarted
    /\ connector = NotStarted
    /\ chat_app = NotStarted
    /\ ui_agent = NotStarted

LLMFrame ==
    UNCHANGED <<pc, settings, http_client, actions, idx, aggregated_results,
                data_sources_used_list, any_execution_error_occurred, exec_log,
                response, client_pool, connector, chat_app, ui_agent>>

\* configure_gemini_if_needed called by the lifespan
LLMConfigure ==
    /\ \E raises \in BOOLEAN :
         LET c == ConfigureGemini(gemini_configured, gemini_model,
                                  settings.GOOGLE_GEMINI_API_KEY, raises)
         IN  /\ gemini_configured' = c.configured
             /\ gemini_model' = c.model
    /\ UNCHANGED <<llm_response, routing_decision, sentiment_call>>
    /\ LLMFrame

\* one call of route_query_with_llm; llm_response records the outcome of
\* generate_content_async, NotCalled when the call returned before it
LLMRoute ==
    /\ \E raises \in BOOLEAN :
         LET c == ConfigureGemini(gemini_configured, gemini_model,
                                  settings.GOOGLE_GEMINI_API_KEY, raises)
         IN  /\ gemini_configured' = c.configured
             /\ gemini_model' = c.model
             /\ IF c.model = "None" \/ ~c.configured
                THEN /\ llm_response' = NotCalled
                     /\ routing_decision' =
                            RouteQueryWithLLM(c.configured, c.model, NotCalled)
                ELSE \E resp \in LLMServiceResponses :
                     /\ llm_response' = resp
                     /\ routing_decision' =
                            RouteQueryWithLLM(c.configured, c.model, resp)
    /\ UNCHANGED sentiment_call
    /\ LLMFrame

\* one call of analyze_sentiment_with_llm; llm is the outcome of
\* generate_content_async and json.loads, "not_called" when the call returned
\* before them
LLMAnalyze ==
    /\ \E raises \in BOOLEAN, text \in SentimentTexts, topic \in SentimentTopics :
         LET c == ConfigureGemini(gemini_configured, gemini_model,
                                  settings.GOOGLE_GEMINI_API_KEY, raises)
         IN  /\ gemini_configured' = c.configured
             /\ gemini_model' = c.model
             /\ \E llm \in IF c.model = "None" \/ ~c.configured
                           THEN {"not_called"} ELSE SentimentOutcomes :
                  sentiment_call' =
                      [pc |-> "returned", text_to_analyze |-> text, topic |-> topic,
                       llm |-> llm,
                       result |-> AnalyzeSentimentWithLLM(text, topic, c.configured,
                                                          c.model, llm)]
    /\ UNCHANGED <<llm_response, routing_decision>>
    /\ LLMFrame

LLMNext == LLMConfigure \/ LLMRoute \/ LLMAnalyze

SpecLLM == LLMInit /\ [][LLMNext]_vars

\* C29: _gemini_configured being true implies _gemini_model is set; and while
\* configuration has not succeeded (missing or fallback API key, or configure
\* raised), route_query_with_llm and analyze_sentiment_with_llm return an
\* error result without making any call to the LLM.
C29_UnconfiguredNeverCallsLLM ==
    /\ gemini_configured => gemini_model # "None"
    /\ ~gemini_configured =>
        /\ routing_decision # NoDecision =>
             /\ DOMAIN routing_decision = {"error"}
             /\ llm_response = NotCalled
        /\ sentiment_call.pc = "returned" =>
             /\ IsErrorDict(sentiment_call.result)
             /\ sentiment_call.llm = "not_called"

\* the API key is usable but configuring raised every time: both functions
\* have returned their "not configured" error
C29_Witness ==
    /\ pc = "llm_service"
    /\ settings.GOOGLE_GEMINI_API_KEY = "gemini-key"
    /\ ~gemini_configured
    /\ routing_decision = [error |-> "Gemini API not configured. Cannot route query."]
    /\ llm_response = NotCalled
    /\ sentiment_call.pc = "returned"
    /\ sentiment_call.result =
           ErrDict("Gemini API not configured for sentiment analysis.")

-----------------------------------------------------------------------------
(* The components below are studied apart from the /query endpoint, whose    *)
(* variables stay at rest; pc names the component that runs.                 *)

EndpointAtRest(component) ==
    /\ pc = component
    /\ settings = [GOOGLE_GEMINI_API_KEY |-> GEMINI_FALLBACK,
                   HELIUS_API_KEY |-> HELIUS_FALLBACK]
    /\ gemini_configured = FALSE
    /\ gemini_model = "None"
    /\ http_client = "None"
    /\ llm_response = NotCalled
    /\ routing_decision = NoDecision
    /\ actions = <<>>
    /\ idx = 0
    /\ aggregated_results = <<>>
    /\ data_sources_used_list = <<>>
    /\ any_execution_error_occurred = FALSE
    /\ exec_log = <<>>
    /\ response = NoResponse

-----------------------------------------------------------------------------
(* data_sources.py: the life cycle of the shared http_client under           *)
(* concurrent coroutines. A coroutine is suspended only at an await that     *)
(* reaches the event loop: http_client.aclose() and http_client.post(...).   *)

\* the coroutines that call into data_sources
Tasks == {"t1", "t2"}

\* httpx.AsyncClient() objects created over a run
MaxClients == 3

NoPost == [client |-> 0, closed |-> FALSE]

\* current: the global http_client, 0 for None; clients[i]: the state of the
\* i-th AsyncClient created; closing[t]: the client whose aclose() task t
\* awaits, 0 when t is not inside close_http_client; last_post: the client
\* the latest service call posted on and whether it was closed by then
ClientsInit ==
    /\ EndpointAtRest("data_sources")
    /\ client_pool = [current |-> 0, clients |-> <<>>,
                      closing |-> [t \in Tasks |-> 0], last_post |-> NoPost]
    /\ sentiment_call = NotStarted
    /\ connector = NotStarted
    /\ chat_app = NotStarted
    /\ ui_agent = NotStarted

ClientsFrame ==
    UNCHANGED <<endpoint_vars, sentiment_call, connector, chat_app, ui_agent>>

\* init_http_client: `if http_client is None: http_client = httpx.AsyncClient()`
InitHttpClient(pool) ==
    IF pool.current = 0
    THEN [pool EXCEPT !.clients = Append(@, "open"), !.current = Len(pool.clients) + 1]
    ELSE pool

\* task t calls init_http_client
CallInit(t) ==
    /\ client_pool.closing[t] = 0
    /\ client_pool.current # 0 \/ Len(client_pool.clients) < MaxClients
    /\ client_pool' = InitHttpClient(client_pool)
    /\ ClientsFrame

\* close_http_client up to its await: `if http_client: await http_client.aclose()`;
\* aclose marks the client closed before it yields to the event loop
CloseBegin(t) ==
    /\ client_pool.closing[t] = 0
    /\ client_pool.current # 0
    /\ client_pool' = [client_pool EXCEPT
                          !.clients[client_pool.current] = "closed",
                          !.closing[t] = client_pool.current]
    /\ ClientsFrame

\* close_http_client after its await: `http_client = None`
CloseEnd(t) ==
    /\ client_pool.closing[t] # 0
    /\ client_pool' = [client_pool EXCEPT !.current = 0, !.closing[t] = 0]
    /\ ClientsFrame

\* a Helius service call by task t up to its post: `if not http_client: await
\* init_http_client()` and `await http_client.post(...)`
ServicePost(t) ==
    /\ client_pool.closing[t] = 0
    /\ client_pool.current # 0 \/ Len(client_pool.clients) < MaxClients
    /\ LET pool == InitHttpClient(client_pool)
       IN  client_pool' = [pool EXCEPT !.last_post =
                               [client |-> pool.current,
                                closed |-> pool.clients[pool.current] = "closed"]]
    /\ ClientsFrame

ClientsNext ==
    \E t \in Tasks : CallInit(t) \/ CloseBegin(t) \/ CloseEnd(t) \/ ServicePost(t)

SpecClients == ClientsInit /\ [][ClientsNext]_vars

OpenClients ==
    {i \in 1..Len(client_pool.clients) : client_pool.clients[i] = "open"}

\* C30: under any interleaving of init_http_client, close_http_client and
\* concurrent service calls, at most one shared HTTP client is open at a time
\* and no service call posts a request on a client that close_http_client has
\* already closed.
C30_OneOpenClientNoPostOnClosed ==
    pc = "data_sources" =>
        /\ Cardinality(OpenClients) <= 1
        /\ ~client_pool.last_post.closed

-----------------------------------------------------------------------------
(* agent_client/solquery_connector_agent.py: the connector agent takes       *)
(* ProcessedSolQueryTask messages, posts each query to the /query endpoint   *)
(* and sends a SolQueryResult back. Handlers of different messages           *)
(* interleave at `await http_client_instance.post(...)`.                     *)

\* the ProcessedSolQueryTask messages of the model and their senders
ConnectorTasks ==
    {[task_id |-> "task-1", sender |-> "agent1-ui"],
     [task_id |-> "task-2", sender |-> "agent1-other"]}

TaskIds == {m.task_id : m \in ConnectorTasks}

EmptyDict == [py |-> "dict", n |-> 0]

\* the "error" member of a /query JSON body: null, an ErrorDetail, a dict
\* without "message", a string, or something else
BackendErrors ==
    {PyNone,
     PyDict([type |-> "AggregatedError",
             message |-> "One or more actions had issues. See answer for details."]),
     PyDict([type |-> "LLMRoutingError"]),
     PyStr("backend failed"),
     [py |-> "list"]}

\* JSON objects a 2xx answer of the /query endpoint can carry, with and
\* without the "success" member
BackendBodies ==
    {[success |-> s, error |-> e] : s \in BOOLEAN, e \in BackendErrors}
    \cup {[error |-> e] : e \in BackendErrors}

\* what post / raise_for_status / json() can do
HttpOutcomes ==
    {[kind |-> "ok", body |-> b] : b \in BackendBodies}
    \cup {[kind |-> k] : k \in {"http_status_error", "request_error",
                                "json_decode_error", "exception"}}

SolQueryResult(to, task_id, success, response_data, error_message) ==
    [to |-> to, task_id |-> task_id, success |-> success,
     response_data |-> response_data, error_message |-> error_message]

\* variant of NotReadyReplies: the handler logs the missing client and returns
NotReadyReplies_ReturnsSilently(msg) == <<>>

\* the messages sent when http_client_instance is not set
NotReadyReplies(msg) ==
    <<SolQueryResult(msg.sender, msg.task_id, FALSE, EmptyDict,
                     PyStr("Internal error: HTTP client not ready in connector."))>>

\* variant of BackendReply: a 2xx answer counts as success
BackendReply_TrustsStatus(msg, outcome) ==
    IF outcome.kind = "ok"
    THEN SolQueryResult(msg.sender, msg.task_id, TRUE, PyDict(outcome.body), PyNone)
    ELSE SolQueryResult(msg.sender, msg.task_id, FALSE, EmptyDict,
                        PyStr("SolQuery API error"))

\* the try block, its except clauses and the final SolQueryResult
BackendReply(msg, outcome) ==
    IF outcome.kind = "ok"
    THEN LET result_json == outcome.body
             response_success == IF "success" \in DOMAIN result_json
                                 THEN result_json.success ELSE FALSE
             error_detail == result_json.error
             error_msg_str ==
                 IF response_success THEN PyNone
                 ELSE IF error_detail.py = "dict"
                 THEN IF "message" \in DOMAIN error_detail.d
                      THEN PyStr(error_detail.d.message)
                      ELSE PyStr("SolQuery service indicated failure.")
                 ELSE IF error_detail.py = "str" THEN error_detail
                 ELSE PyStr("SolQuery service indicated failure with an unknown "
                            \o "error structure.")
         IN  SolQueryResult(msg.sender, msg.task_id, response_success,
                            PyDict(result_json), error_msg_str)
    ELSE SolQueryResult(msg.sender, msg.task_id, FALSE, EmptyDict,
             CASE outcome.kind = "http_status_error" ->
                    PyStr("SolQuery API HTTP error: 500 - Response: Internal Server Error")
               [] outcome.kind = "request_error" ->
                    PyStr("SolQuery API request error (network issue): ConnectError")
               [] outcome.kind = "json_decode_error" ->
                    PyStr("Failed to decode JSON response from SolQuery API: "
                          \o "Expecting value")
               [] OTHER ->
                    PyStr("Unexpected error calling SolQuery API: RuntimeError"))

\* client: whether the startup handler has set http_client_instance;
\* task[id]: "new" before the message is handled, "posting" while its handler
\* awaits the post, "replied" once its handler has returned; http[id]: the
\* outcome of its HTTP call; sent: the messages sent so far, in order
ConnectorInit ==
    /\ EndpointAtRest("connector")
    /\ connector = [client |-> FALSE,
                    task |-> [id \in TaskIds |-> "new"],
                    http |-> [id \in TaskIds |-> [kind |-> "none"]],
                    sent |-> <<>>]
    /\ sentiment_call = NotStarted
    /\ client_pool = NotStarted
    /\ chat_app = NotStarted
    /\ ui_agent = NotStarted

ConnectorFrame ==
    UNCHANGED <<endpoint_vars, sentiment_call, client_pool, chat_app, ui_agent>>

\* initialize_http_client_and_log_readme
ConnectorStartup ==
    /\ ~connector.client
    /\ connector' = [connector EXCEPT !.client = TRUE]
    /\ ConnectorFrame

\* query_solquery_backend_service up to its first await
ConnectorReceive(msg) ==
    /\ connector.task[msg.task_id] = "new"
    /\ connector' =
         IF ~connector.client
         THEN [connector EXCEPT !.task[msg.task_id] = "replied",
                                !.sent = @ \o NotReadyReplies(msg)]
         ELSE [connector EXCEPT !.task[msg.task_id] = "posting"]
    /\ ConnectorFrame

\* query_solquery_backend_service from the completion of the post to its end
ConnectorComplete(msg) ==
    /\ connector.task[msg.task_id] = "posting"
    /\ \E outcome \in HttpOutcomes :
         connector' = [connector EXCEPT
                          !.task[msg.task_id] = "replied",
                          !.http[msg.task_id] = outcome,
                          !.sent = Append(@, BackendReply(msg, outcome))]
    /\ ConnectorFrame

ConnectorNext ==
    \/ ConnectorStartup
    \/ \E msg \in ConnectorTasks : ConnectorReceive(msg) \/ ConnectorComplete(msg)

SpecConnector == ConnectorInit /\ [][ConnectorNext]_vars

\* the SolQueryResult messages sent for a task
RepliesTo(msg) ==
    {i \in 1..Len(connector.sent) : connector.sent[i].task_id = msg.task_id}

\* C24: for every ProcessedSolQueryTask the connector agent receives, it sends
\* exactly one SolQueryResult back to the task's sender, carrying the task_id
\* of that task, on every path (HTTP client missing, backend success, backend
\* failure, HTTP error, network error, JSON decode error, unexpected
\* exception).
C24_ExactlyOneResultPerTask ==
    pc = "connector" =>
        \A msg \in ConnectorTasks :
            /\ connector.task[msg.task_id] = "replied" =>
                 /\ Cardinality(RepliesTo(msg)) = 1
                 /\ \A i \in RepliesTo(msg) : connector.sent[i].to = msg.sender
            /\ connector.task[msg.task_id] # "replied" => RepliesTo(msg) = {}

\* one task was handled before the client existed, the other ended in the
\* `except Exception` clause: each got its one result
C24_Witness ==
    /\ pc = "connector"
    /\ \A msg \in ConnectorTasks : connector.task[msg.task_id] = "replied"
    /\ connector.http["task-1"].kind = "none"
    /\ connector.http["task-2"].kind = "exception"
    /\ Len(connector.sent) = 2
    /\ connector.sent[1].task_id = "task-1"
    /\ connector.sent[2].task_id = "task-2"

\* the HTTP call of a task completed with a 2xx status and a JSON body that
\* reports success = true
BackendSucceeded(id) ==
    /\ connector.http[id].kind = "ok"
    /\ "success" \in DOMAIN connector.http[id].body
    /\ connector.http[id].body.success

\* C25: in every SolQueryResult sent by the connector agent, success is true
\* exactly when the HTTP call completed with a 2xx status and the backend's
\* JSON reports success = true; and error_message is non-null exactly when
\* success is false.
C25_SuccessMirrorsBackend ==
    pc = "connector" =>
        \A i \in 1..Len(connector.sent) :
            /\ connector.sent[i].success <=> BackendSucceeded(connector.sent[i].task_id)
            /\ connector.sent[i].error_message # PyNone <=> ~connector.sent[i].success

\* a 2xx answer whose body reports success = false with an ErrorDetail, and
\* a 2xx answer that reports success = true
C25_Witness ==
    /\ pc = "connector"
    /\ Len(connector.sent) = 2
    /\ \E i, j \in 1..2 :
         /\ connector.http[connector.sent[i].task_id].kind = "ok"
         /\ ~connector.sent[i].success
         /\ connector.sent[i].error_message =
                PyStr("One or more actions had issues. See answer for details.")
         /\ connector.sent[j].success
         /\ connector.sent[j].error_message = PyNone

-----------------------------------------------------------------------------
(* agent_client/fukuoka_chat_ui_agent.py: the HTTP handler of the chat UI    *)
(* agent sends the query to the connector agent, has the answer formatted    *)
(* and returns (body, status).                                               *)

\* FormattedApiResponse(**kwargs): task_id and natural_language_answer are
\* required fields; the others take their defaults
FormattedApiResponse(kwargs) ==
    IF {"task_id", "natural_language_answer"} \subseteq DOMAIN kwargs
    THEN [kind |-> "model",
          d |-> [task_id |-> kwargs.task_id,
                 natural_language_answer |-> kwargs.natural_language_answer,
                 structured_data |-> IF "structured_data" \in DOMAIN kwargs
                                     THEN kwargs.structured_data ELSE PyNone,
                 error_message |-> IF "error_message" \in DOMAIN kwargs
                                   THEN kwargs.error_message ELSE PyNone,
                 success |-> IF "success" \in DOMAIN kwargs
                             THEN kwargs.success ELSE TRUE]]
    ELSE [kind |-> "raise", cls |-> "ValidationError"]

\* `return FormattedApiResponse(...).model_dump(), status`
ReturnFormatted(kwargs, status) ==
    LET m == FormattedApiResponse(kwargs)
    IN  IF m.kind = "raise"
        THEN [kind |-> "raise", cls |-> m.cls]
        ELSE [kind |-> "return", body |-> m.d, status |-> status]

\* what `await ctx.send(..., response_type=SolQueryResult, timeout=120)` gives
\* the handler: a SolQueryResult the connector can send, None, or an exception
ConnectorResponses(task_id) ==
    LET msg == [task_id |-> task_id, sender |-> "agent1-ui"]
    IN  {[kind |-> "none"], [kind |-> "exception"]}
        \cup {[kind |-> "reply", msg |-> BackendReply(msg, o)] : o \in HttpOutcomes}
        \cup {[kind |-> "reply", msg |-> NotReadyReplies(msg)[1]]}

\* format_solquery_response_with_asi1_mini returns a string on each of its
\* paths, or json.dumps in its except clause raises
FormatOutcomes ==
    {[kind |-> "return", text |-> "Your wallet holds 1.5 SOL."],
     [kind |-> "return",
      text |-> "Error: ASI1-Mini not available for formatting. Raw data: {}"],
     [kind |-> "return",
      text |-> "I found some information, but had trouble formatting it. Raw data: {}"],
     [kind |-> "raise"]}

\* handle_streamlit_query_http when SOLQUERY_CONNECTOR_AGENT_ADDRESS is unset
HandleWithoutConnector(task_id) ==
    ReturnFormatted([task_id |-> task_id, success |-> FALSE,
                     error_message |-> PyStr("Internal config error.")], 500)

\* the try block of handle_streamlit_query_http and its except clause
HandleConnectorResponse(task_id, connector_response, fmt) ==
    CASE connector_response.kind = "exception" ->
           ReturnFormatted(
               [task_id |-> task_id, success |-> FALSE,
                error_message |-> PyStr("Internal processing error: SendError"),
                natural_language_answer |-> "Sorry, an unexpected error occurred."], 500)
      [] connector_response.kind = "none" ->
           ReturnFormatted(
               [task_id |-> task_id, success |-> FALSE,
                error_message |-> PyStr("No response from backend data agent (timeout)."),
                natural_language_answer |-> "Sorry, I couldn't reach my data sources."],
               504)
      [] connector_response.kind = "reply" /\ connector_response.msg.success ->
           IF fmt.kind = "raise"
           THEN ReturnFormatted(
                    [task_id |-> task_id, success |-> FALSE,
                     error_message |-> PyStr("Internal processing error: TypeError"),
                     natural_language_answer |-> "Sorry, an unexpected error occurred."],
                    500)
           ELSE ReturnFormatted(
                    [task_id |-> task_id, natural_language_answer |-> fmt.text,
                     structured_data |-> connector_response.msg.response_data,
                     success |-> TRUE], 200)
      [] OTHER ->
           LET em == connector_response.msg.error_message
               error_msg == IF em = PyNone \/ em = PyStr("")
                            THEN "SolQuery Connector reported an unspecified failure."
                            ELSE em.v
           IN  ReturnFormatted(
                   [task_id |-> task_id, success |-> FALSE,
                    error_message |-> PyStr(error_msg),
                    natural_language_answer |->
                        "Sorry, I couldn't process that: " \o error_msg], 500)

NoResult == [kind |-> "none"]

\* address: whether SOLQUERY_CONNECTOR_AGENT_ADDRESS is set; pc: "idle",
\* "awaiting" (the handler awaits ctx.send), "returned" or "raised";
\* result: how the latest call of the handler ended
UIAgentInit ==
    /\ EndpointAtRest("ui_agent")
    /\ \E a \in BOOLEAN :
         ui_agent = [address |-> a, pc |-> "idle", task_id |-> "", result |-> NoResult]
    /\ sentiment_call = NotStarted
    /\ client_pool = NotStarted
    /\ connector = NotStarted
    /\ chat_app = NotStarted

UIAgentFrame ==
    UNCHANGED <<endpoint_vars, sentiment_call, client_pool, connector, chat_app>>

\* handle_streamlit_query_http up to its await
UIAgentRequest ==
    /\ ui_agent.pc = "idle"
    /\ \E task_id \in TaskIds :
         ui_agent' =
             IF ~ui_agent.address
             THEN LET r == HandleWithoutConnector(task_id)
                  IN  [ui_agent EXCEPT !.task_id = task_id, !.result = r,
                          !.pc = IF r.kind = "raise" THEN "raised" ELSE "returned"]
             ELSE [ui_agent EXCEPT !.task_id = task_id, !.pc = "awaiting"]
    /\ UIAgentFrame

\* handle_streamlit_query_http from the end of ctx.send to its return
UIAgentRespond ==
    /\ ui_agent.pc = "awaiting"
    /\ \E cr \in ConnectorResponses(ui_agent.task_id), fmt \in FormatOutcomes :
         LET r == HandleConnectorResponse(ui_agent.task_id, cr, fmt)
         IN  ui_agent' = [ui_agent EXCEPT !.result = r,
                            !.pc = IF r.kind = "raise" THEN "raised" ELSE "returned"]
    /\ UIAgentFrame

\* the agent takes the next HTTP request
UIAgentNextRequest ==
    /\ ui_agent.pc \in {"returned", "raised"}
    /\ ui_agent' = [ui_agent EXCEPT !.pc = "idle"]
    /\ UIAgentFrame

UIAgentNext == UIAgentRequest \/ UIAgentRespond \/ UIAgentNextRequest

SpecUIAgent == UIAgentInit /\ [][UIAgentNext]_vars

\* C27: handle_streamlit_query_http returns a (body, status) pair on every
\* path and never raises: missing connector address, connector success,
\* connector failure, no reply and exception each yield a FormattedApiResponse
\* body, with status 200 exactly when body.success is true and status 500 or
\* 504 with success = false otherwise.
C27_AlwaysReturnsBodyAndStatus ==
    (pc = "ui_agent" /\ ui_agent.result # NoResult) =>
        /\ ui_agent.result.kind = "return"
        /\ ui_agent.result.status \in {200, 500, 504}
        /\ ui_agent.result.status = 200 <=> ui_agent.result.body.success

-----------------------------------------------------------------------------
(* agent_client/fukuoka_chat_app.py: ask_fukuoka_uagent runs a temporary     *)
(* agent that sends the query at startup and waits, for at most 120 s, for   *)
(* the chat agent's FukuokaAgentResponse.                                    *)

\* FukuokaAgentResponse messages that reach the temporary agent during one call
MaxReplies == 2

FukuokaAgentResponse(task_id, success, answer, error_message) ==
    [task_id |-> task_id, success |-> success, answer |-> answer,
     error_message |-> error_message]

\* a failure built by ask_fukuoka_uagent itself
AskFailure(task_id, error_message) ==
    FukuokaAgentResponse(task_id, FALSE, PyNone, PyStr(error_message))

\* the replies agents can send to the temporary agent
AgentReplies ==
    {FukuokaAgentResponse(id, TRUE, PyStr("Three cafes accept USDC."), PyNone) :
        id \in TaskIds}
    \cup {FukuokaAgentResponse(id, FALSE, PyNone, PyStr("SolQuery failed.")) :
            id \in TaskIds}

NoReply == [task_id |-> "none"]

\* address: whether FUKUOKA_CHAT_UI_AGENT_ADDRESS is set; pc: "idle",
\* "running" (inside wait_for(bureau.run_async())), "stopping" (signal_stop
\* was called, the bureau has not ended yet) or "returned"; sent: whether the
\* startup handler's ctx.send went through; reply_storage:
\* reply_storage['result'], NoReply while unset; arrived: the replies that
\* reached the temporary agent's address since the call began; result: what
\* the call returned
ChatAppInit ==
    /\ EndpointAtRest("chat_app")
    /\ \E a \in BOOLEAN :
         chat_app = [address |-> a, pc |-> "idle", task_id |-> "", sent |-> FALSE,
                     reply_storage |-> NoReply, arrived |-> <<>>, result |-> NoReply]
    /\ sentiment_call = NotStarted
    /\ client_pool = NotStarted
    /\ connector = NotStarted
    /\ ui_agent = NotStarted

ChatAppFrame ==
    UNCHANGED <<endpoint_vars, sentiment_call, client_pool, connector, ui_agent>>

\* ask_fukuoka_uagent up to wait_for, with the temporary agent's startup
\* handler: ctx.send may raise
AskFukuokaUagent ==
    /\ chat_app.pc = "idle"
    /\ \E task_id \in TaskIds, send_raises \in BOOLEAN :
         chat_app' =
             IF ~chat_app.address
             THEN [chat_app EXCEPT
                     !.task_id = task_id, !.pc = "returned", !.arrived = <<>>,
                     !.sent = FALSE, !.reply_storage = NoReply,
                     !.result = AskFailure(task_id,
                                    "Fukuoka Chat UI Agent address not configured.")]
             ELSE IF send_raises
             THEN [chat_app EXCEPT
                     !.task_id = task_id, !.pc = "stopping", !.arrived = <<>>,
                     !.sent = FALSE,
                     !.reply_storage = AskFailure(task_id,
                                           "Failed to send task: ConnectionError"),
                     !.result = NoReply]
             ELSE [chat_app EXCEPT
                     !.task_id = task_id, !.pc = "running", !.arrived = <<>>,
                     !.sent = TRUE, !.reply_storage = NoReply, !.result = NoReply]
    /\ ChatAppFrame

\* on_fukuoka_agent_reply: stores a reply for the requested task, and calls
\* ctx.signal_stop() whatever the reply
OnFukuokaAgentReply(app, msg) ==
    [app EXCEPT !.reply_storage = IF msg.task_id = app.task_id THEN msg ELSE @,
                !.pc = "stopping"]

\* a reply reaches the temporary agent (one for the requested task only if
\* the query was sent); once signal_stop has been called the message handler
\* may still run for it, or not
ReplyArrives ==
    /\ chat_app.pc \in {"running", "stopping"}
    /\ Len(chat_app.arrived) < MaxReplies
    /\ \E msg \in {m \in AgentReplies : m.task_id = chat_app.task_id => chat_app.sent} :
         LET app == [chat_app EXCEPT !.arrived = Append(@, msg)]
         IN  \/ chat_app' = OnFukuokaAgentReply(app, msg)
             \/ /\ chat_app.pc = "stopping"
                /\ chat_app' = app
    /\ ChatAppFrame

\* asyncio.TimeoutError, or another exception of bureau.run_async(): both
\* return a failure from the except clause
WaitFails ==
    /\ chat_app.pc \in {"running", "stopping"}
    /\ \E error_message \in {"Timeout waiting for Fukuoka Chat UI Agent reply.",
                             "Temporary agent bureau error: OSError"} :
         chat_app' = [chat_app EXCEPT !.pc = "returned",
                         !.result = AskFailure(chat_app.task_id, error_message)]
    /\ ChatAppFrame

\* bureau.run_async() ends after signal_stop: the code after the try
BureauEnds ==
    /\ chat_app.pc = "stopping"
    /\ chat_app' = [chat_app EXCEPT
                      !.pc = "returned",
                      !.result = IF chat_app.reply_storage # NoReply
                                 THEN chat_app.reply_storage
                                 ELSE AskFailure(chat_app.task_id,
                                          "Processing completed by agent but no "
                                          \o "specific result captured by UI.")]
    /\ ChatAppFrame

\* handle_user_prompt runs again for the next prompt
NextPrompt ==
    /\ chat_app.pc = "returned"
    /\ chat_app' = [chat_app EXCEPT !.pc = "idle"]
    /\ ChatAppFrame

ChatAppNext == AskFukuokaUagent \/ ReplyArrives \/ WaitFails \/ BureauEnds \/ NextPrompt

SpecChatApp == ChatAppInit /\ [][ChatAppNext]_vars

\* the replies for the requested task among those that arrived
MatchingArrivals ==
    {i \in 1..Len(chat_app.arrived) : chat_app.arrived[i].task_id = chat_app.task_id}

TimedOutWaiting ==
    chat_app.result \in {AskFailure(chat_app.task_id, m) :
                            m \in {"Timeout waiting for Fukuoka Chat UI Agent reply.",
                                   "Temporary agent bureau error: OSError"}}

\* C26: ask_fukuoka_uagent returns the chat agent's reply for the requested
\* task whenever a FukuokaAgentResponse with the matching task_id is delivered
\* to the temporary agent before the 120 s timeout, regardless of which other
\* messages (including replies carrying a different task_id) are delivered
\* before it; a reply with a different task_id is never returned as the result.
C26_MatchingReplyIsReturned ==
    (pc = "chat_app" /\ chat_app.pc = "returned") =>
        /\ (MatchingArrivals # {} /\ ~TimedOutWaiting) =>
              \E i \in MatchingArrivals : chat_app.result = chat_app.arrived[i]
        /\ chat_app.result.task_id = chat_app.task_id

====
